---- MODULE Spec2Model ----
(***************************************************************************)
(* State-machine model of vtkPlusV4L2VideoSource (PlusLib, V4L2 capture).  *)
(* The session's fields are the variables of the class; the kernel side    *)
(* (open descriptors, buffer queues, streaming flag, current format) is    *)
(* the V4L2 device the session talks to through open/ioctl/mmap/select.    *)
(* Every handler (InternalConnect, InternalDisconnect, ...) is one action; *)
(* the answers of the kernel to the handler's requests are its inputs.     *)
(***************************************************************************)
EXTENDS Integers, Sequences, FiniteSets, TLC

VARIABLES
  DeviceName,       \* std::string DeviceName
  IOMethod,         \* V4L2_IO_METHOD of the session
  ForceFormat,      \* bool ForceFormat of the header
  FileDescriptor,   \* int FileDescriptor, -1 when invalid
  FramesPtr,        \* FrameBuffer* Frames: "nullptr", "allocated", "freed" (dangling)
  Frames,           \* the cells Frames[0..], what the pointer pointed to last
  BufferCount,      \* unsigned int BufferCount
  RequestedFormat,  \* v4l2_format held by the session
  FrameNumber,      \* vtkPlusDevice::FrameNumber
  sinkFrames,       \* frames the session has handed to its output data source
  Connected,        \* host flag: InternalConnect succeeded, no Disconnect since
  openFds,          \* kernel: descriptors currently open on the device
  devFormat,        \* kernel: the device's current format
  kcount,           \* kernel: number of buffers granted by VIDIOC_REQBUFS
  streaming,        \* kernel: stream is on
  incoming,         \* kernel: FIFO of queued (empty) buffers
  outgoing,         \* kernel: FIFO of filled buffers waiting for VIDIOC_DQBUF
  leaked,           \* a live container or region lost its only pointer
  hazard,           \* undefined behaviour met by the session ("none" if none)
  lastOp,           \* observation: last handler called
  lastStatus,       \* observation: its PlusStatus
  lastOutcome,      \* observation: where it ended
  prevConnectOk,    \* observation: the handler before lastOp was a successful Connect
  issued,           \* observation: kernel requests issued by the last handler
  connectInfo,      \* observation: what the device answered in the last Connect
  runOk,            \* observation: length of the current run of successful cycles
  runQbufs,         \* observation: VIDIOC_QBUF calls issued within that run
  requeuedQueued,   \* observation: a cycle queued a buffer the kernel still held
  updateThread,     \* position of the thread that runs InternalUpdate
  raceObs,          \* observation: what the update cycle met when another thread
                    \* ran InternalDisconnect inside it
  OutputChannels,   \* vtkPlusDevice::OutputChannels, by its size
  CorrectlyConfigured, \* vtkPlusDevice::CorrectlyConfigured
  written,          \* observation: the record the last WriteConfiguration wrote
  readBack,         \* observation: a fresh session after ReadConfiguration of it
  converted,        \* observation: the last mode name converted, and the results
  ioctlObs          \* observation: the last xioctl call, its answers and result

sessionVars == <<DeviceName, IOMethod, ForceFormat, FileDescriptor, FramesPtr, Frames,
                 BufferCount, RequestedFormat, FrameNumber>>
kernelVars  == <<openFds, devFormat, kcount, streaming, incoming, outgoing>>
streamObs   == <<runOk, runQbufs, requeuedQueued>>
obsVars     == <<lastOp, lastStatus, lastOutcome, prevConnectOk, issued,
                 connectInfo, runOk, runQbufs, requeuedQueued>>
threadVars  == <<updateThread, raceObs>>
hostVars    == <<OutputChannels, CorrectlyConfigured>>
utilVars    == <<written, readBack, converted, ioctlObs>>
vars == <<sessionVars, sinkFrames, Connected, kernelVars, leaked, hazard, obsVars,
          threadVars, hostVars, utilVars>>

----------------------------------------------------------------------------
(* Bounds of the model *)

\* largest buffer count the kernel grants to VIDIOC_REQBUFS
MaxGranted == 4
\* update cycles are not invoked once FrameNumber has reached this value
MaxFrameNumber == 2
\* descriptors the process may hold open at once (open fails beyond, EMFILE)
MaxOpenFds == 1
\* longest run of consecutive successful cycles that is counted; a longer run is
\* counted as a new one
MaxRun == 2
\* largest buffer count granted by the devices that answer VIDIOC_REQBUFS with
\* any count, below and above the requested one
MaxWideGranted == 6
\* most output channels the host defines for the device
MaxChannels == 2
\* most times in a row one ioctl request is interrupted by a signal
MaxInterrupts == 2

(* Program constants *)

InvalidFd == 0 - 1
FirstFd == 3
ReqCount == 4
MinBuffers == 2
UserpCount == 4
ForcedWidth == 640
ForcedHeight == 480

PLUS_SUCCESS == "PLUS_SUCCESS"
PLUS_FAIL == "PLUS_FAIL"

IO_METHOD_READ == "IO_METHOD_READ"
IO_METHOD_MMAP == "IO_METHOD_MMAP"
IO_METHOD_USERPTR == "IO_METHOD_USERPTR"
IO_METHOD_UNKNOWN == "IO_METHOD_UNKNOWN"
IOMethods == {IO_METHOD_READ, IO_METHOD_MMAP, IO_METHOD_USERPTR}

V4L2_CAP_VIDEO_CAPTURE == "V4L2_CAP_VIDEO_CAPTURE"
V4L2_CAP_READWRITE == "V4L2_CAP_READWRITE"
V4L2_CAP_STREAMING == "V4L2_CAP_STREAMING"
Capabilities == {V4L2_CAP_VIDEO_CAPTURE, V4L2_CAP_READWRITE, V4L2_CAP_STREAMING}

----------------------------------------------------------------------------
(* Formats *)

BytesPerPixel(pixelformat) ==
  IF pixelformat = "YUYV" THEN 2 ELSE IF pixelformat = "GREY" THEN 1 ELSE 0

\* a format as the driver reports it: the driver fills in sizeimage
DriverFormat(w, h, p, f) ==
  [width |-> w, height |-> h, pixelformat |-> p, field |-> f,
   sizeimage |-> w * h * BytesPerPixel(p)]

\* formats the simulated devices support
DeviceFormats ==
  { DriverFormat(ForcedWidth, ForcedHeight, "YUYV", "INTERLACED"),
    DriverFormat(320, 240, "GREY", "NONE") }

\* std::make_shared<v4l2_format>(): value-initialised
ZeroFormat ==
  [width |-> 0, height |-> 0, pixelformat |-> "0", field |-> "ANY", sizeimage |-> 0]

----------------------------------------------------------------------------
(* Frame buffers.  Frames[i] of the code is Frames[i+1] here. *)

ZeroCell == [start |-> "NULL", length |-> 0]

\* calloc(n, sizeof(FrameBuffer))
Calloc(n) == [i \in 1..n |-> ZeroCell]

NoRequests == << >>
Req(name, arg) == [req |-> name, arg |-> arg]

NothingWritten ==
  [done |-> FALSE, DeviceName |-> "", IOMethod |-> "",
   record |-> [root |-> "", device |-> "", name |-> ""]]
NothingRead == [done |-> FALSE, status |-> "", DeviceName |-> "", IOMethod |-> ""]
NothingConverted ==
  [done |-> FALSE, input |-> "", mode |-> "", from |-> "", name |-> "", back |-> ""]
NoCall == [done |-> FALSE, interrupts |-> 0, calls |-> 0, result |-> 0, errno |-> ""]

\* the update thread outside a cycle
Idle == [pc |-> "idle", fd |-> InvalidFd]

\* nothing ran inside the update cycle
NoRace == [overlapped |-> FALSE, closedHandle |-> FALSE, releasedBuffer |-> FALSE]

----------------------------------------------------------------------------
(* Answers of the device and of the C library to one InternalConnect.      *)
(* fail names the one step that fails ("none": no step fails); the other   *)
(* fields are what the device reports when asked.                          *)

CropOutcomes == {"cropcap_fails", "s_crop_fails", "ok"}

AllAnswer ==
  [fail |-> "none", caps |-> Capabilities, crop |-> "ok",
   reply |-> DriverFormat(ForcedWidth, ForcedHeight, "YUYV", "INTERLACED"),
   granted |-> ReqCount, failIdx |-> 0, mapFailed |-> {}]

\* one request before buffer initialisation fails
EarlyFailureAnswers ==
  { [AllAnswer EXCEPT !.fail = f] :
      f \in {"stat", "notchr", "open", "querycap", "gfmt", "sfmt"} }

\* no request fails; the capability set the device reports varies
CapabilityAnswers ==
  { [AllAnswer EXCEPT !.caps = c] : c \in SUBSET Capabilities }

\* no request fails; the cropping answers and the format the device settles on vary
NegotiationAnswers ==
  { [AllAnswer EXCEPT !.crop = k, !.reply = r] :
      k \in CropOutcomes, r \in DeviceFormats }

\* no request fails; the buffer count granted varies, and no mapping fails, or
\* the first, or the last
MapFailures(g) == {{}, {0}, {g - 1}}

\* buffer counts the kernel grants: too few, the least accepted, the most
GrantedCounts == {MinBuffers - 1, MinBuffers, MaxGranted}

GrantAnswers ==
  UNION { { [AllAnswer EXCEPT !.granted = g, !.mapFailed = m] : m \in MapFailures(g) } :
          g \in GrantedCounts }

\* one step of the buffer initialisation fails: VIDIOC_REQBUFS, the calloc of the
\* container, or VIDIOC_QUERYBUF / malloc for the first or the last buffer
BufferFailureAnswers ==
  { [AllAnswer EXCEPT !.fail = f] : f \in {"reqbufs", "calloc"} }
  \cup
  { [AllAnswer EXCEPT !.fail = "buf", !.failIdx = k] : k \in {0, ReqCount - 1} }

\* no request fails; the device grants any count from none to MaxWideGranted
WideGrantAnswers ==
  { [AllAnswer EXCEPT !.granted = g] : g \in 0..MaxWideGranted }

\* the cropping block fails and so does the mapping of the first buffer
BestEffortAnswers ==
  { [AllAnswer EXCEPT !.crop = k, !.mapFailed = {0}] :
      k \in {"cropcap_fails", "s_crop_fails"} }

ConnectAnswers ==
  EarlyFailureAnswers \cup CapabilityAnswers \cup NegotiationAnswers
    \cup GrantAnswers \cup BufferFailureAnswers \cup BestEffortAnswers

----------------------------------------------------------------------------
(* Buffer-pool initialisation.  Each operator returns the fields it leaves *)
(* in the session, its PlusStatus and the requests it issued.              *)

InitResult(status, outcome, ptr, cells, count, log) ==
  [status |-> status, outcome |-> outcome, FramesPtr |-> ptr, Frames |-> cells,
   BufferCount |-> count, issued |-> log]

\* vtkPlusV4L2VideoSource::InitRead
InitRead(bufferSize, e) ==
  IF e.fail = "calloc"
  THEN InitResult(PLUS_FAIL, "BufferInitFailed", "nullptr", << >>, BufferCount,
                  <<Req("calloc", 1)>>)
  ELSE LET mallocOk == ~(e.fail = "buf" /\ e.failIdx = 0)
           cell == [start |-> IF mallocOk THEN "allocated" ELSE "NULL",
                    length |-> bufferSize]
           log == <<Req("calloc", 1), Req("malloc", bufferSize)>>
       IN InitResult(IF mallocOk THEN PLUS_SUCCESS ELSE PLUS_FAIL,
                     IF mallocOk THEN "Connected" ELSE "BufferInitFailed",
                     "allocated", <<cell>>, BufferCount, log)

\* the for loop of InitMmap: count is this->BufferCount, n is req.count
RECURSIVE MmapLoop(_, _, _, _, _, _)
MmapLoop(cells, count, n, klen, e, log) ==
  IF ~(count < n)
  THEN InitResult(PLUS_SUCCESS, "Connected", "allocated", cells, count, log)
  ELSE IF e.fail = "buf" /\ e.failIdx = count
  THEN InitResult(PLUS_FAIL, "BufferInitFailed", "allocated", cells, count,
                  Append(log, Req("VIDIOC_QUERYBUF", count)))
  ELSE LET start == IF count \in e.mapFailed THEN "MAP_FAILED" ELSE "mapped"
           cell == [start |-> start, length |-> klen]
           ret == IF start = "MAP_FAILED" THEN 0 - 1 ELSE 0
       IN MmapLoop([cells EXCEPT ![count + 1] = cell], count + 1, n, klen, e,
                   log \o <<Req("VIDIOC_QUERYBUF", count), Req("mmap", count),
                            Req("mmap_returned", ret)>>)

\* the request for buffers and what it returned
RequestBuffers(ret) ==
  <<Req("VIDIOC_REQBUFS", ReqCount), Req("VIDIOC_REQBUFS_returned", ret)>>

\* a test that insists on the requested count
InsufficientBelowRequested(count) == count < ReqCount

\* req.count < 2
InsufficientBuffers(count) == count < MinBuffers

\* vtkPlusV4L2VideoSource::InitMmap; klen is the length VIDIOC_QUERYBUF reports
InitMmap(klen, e) ==
  IF e.fail = "reqbufs"
  THEN InitResult(PLUS_FAIL, "BufferInitFailed", FramesPtr, Frames, BufferCount,
                  RequestBuffers(0 - 1))
  ELSE IF InsufficientBuffers(e.granted)
  THEN InitResult(PLUS_FAIL, "InsufficientBuffers", FramesPtr, Frames, BufferCount,
                  RequestBuffers(0))
  ELSE IF e.fail = "calloc"
  THEN InitResult(PLUS_FAIL, "BufferInitFailed", "nullptr", << >>, BufferCount,
                  Append(RequestBuffers(0), Req("calloc", e.granted)))
  ELSE MmapLoop(Calloc(e.granted), 0, e.granted, klen, e,
                Append(RequestBuffers(0), Req("calloc", e.granted)))

\* the for loop of InitUserp
RECURSIVE UserpLoop(_, _, _, _, _)
UserpLoop(cells, count, bufferSize, e, log) ==
  IF ~(count < UserpCount)
  THEN InitResult(PLUS_SUCCESS, "Connected", "allocated", cells, count, log)
  ELSE LET mallocOk == ~(e.fail = "buf" /\ e.failIdx = count)
           cell == [start |-> IF mallocOk THEN "allocated" ELSE "NULL",
                    length |-> bufferSize]
           cells2 == [cells EXCEPT ![count + 1] = cell]
           log2 == Append(log, Req("malloc", bufferSize))
       IN IF mallocOk
          THEN UserpLoop(cells2, count + 1, bufferSize, e, log2)
          ELSE InitResult(PLUS_FAIL, "BufferInitFailed", "allocated", cells2,
                          count, log2)

\* an InitUserp that sizes its buffers before the frame byte size is known
InitUserpUnsized(bufferSize, e) ==
  UserpLoop(Calloc(UserpCount), 0, 0, e,
            Append(RequestBuffers(0), Req("calloc", UserpCount)))

\* vtkPlusV4L2VideoSource::InitUserp
InitUserp(bufferSize, e) ==
  IF e.fail = "reqbufs"
  THEN InitResult(PLUS_FAIL, "BufferInitFailed", FramesPtr, Frames, BufferCount,
                  RequestBuffers(0 - 1))
  ELSE IF e.fail = "calloc"
  THEN InitResult(PLUS_FAIL, "BufferInitFailed", "nullptr", << >>, BufferCount,
                  Append(RequestBuffers(0), Req("calloc", UserpCount)))
  ELSE UserpLoop(Calloc(UserpCount), 0, bufferSize, e,
                 Append(RequestBuffers(0), Req("calloc", UserpCount)))

\* the switch at the end of InternalConnect
InitBuffers(method, fmt, klen, e) ==
  IF method = IO_METHOD_READ THEN InitRead(fmt.sizeimage, e)
  ELSE IF method = IO_METHOD_MMAP THEN InitMmap(klen, e)
  ELSE IF method = IO_METHOD_USERPTR THEN InitUserp(fmt.sizeimage, e)
  ELSE InitResult(PLUS_FAIL, "BufferInitFailed", FramesPtr, Frames, BufferCount,
                  NoRequests)


----------------------------------------------------------------------------
(* InternalConnect *)

\* a capability switch that accepts every transport
TransportUnchecked(method, caps) == TRUE

\* the capability switch of InternalConnect
TransportSupported(method, caps) ==
  IF method = IO_METHOD_READ THEN V4L2_CAP_READWRITE \in caps
  ELSE IF method \in {IO_METHOD_MMAP, IO_METHOD_USERPTR} THEN V4L2_CAP_STREAMING \in caps
  ELSE TRUE

\* the requests of the cropping block: VIDIOC_S_CROP only if VIDIOC_CROPCAP succeeded
CropRequests(crop) ==
  IF crop = "cropcap_fails"
  THEN <<Req("VIDIOC_CROPCAP", 0), Req("VIDIOC_CROPCAP_returned", 0 - 1)>>
  ELSE <<Req("VIDIOC_CROPCAP", 0), Req("VIDIOC_CROPCAP_returned", 0),
         Req("VIDIOC_S_CROP", 0),
         Req("VIDIOC_S_CROP_returned", IF crop = "s_crop_fails" THEN 0 - 1 ELSE 0)>>

\* a cropping block that gives up when one of its two requests fails
ContinuesAfterCropOk(crop) == crop = "ok"

\* the cropping block has no return statement: whatever VIDIOC_CROPCAP and
\* VIDIOC_S_CROP answer, control reaches VIDIOC_G_FMT
ContinuesAfterCrop(crop) == TRUE

\* the format written over the queried one before VIDIOC_S_FMT
ForcedFormat(queried) ==
  [queried EXCEPT !.width = ForcedWidth, !.height = ForcedHeight,
                  !.pixelformat = "YUYV", !.field = "INTERLACED"]

\* VIDIOC_S_FMT given a copy of the format: the session keeps what it asked for
FormatKeptAsAsked(asked, reply) == asked

\* VIDIOC_S_FMT is given this->RequestedFormat.get(): the driver's answer
\* replaces what the session asked for
FormatAfterSetFormat(asked, reply) == reply

\* open(): the lowest descriptor not in use
NewFd == CHOOSE n \in FirstFd..(FirstFd + MaxOpenFds) :
           n \notin openFds /\ \A m \in FirstFd..(n - 1) : m \in openFds

ConnectReturn(status, outcome, fd, fds, fmt, dfmt, init, granted, log, info) ==
  [status |-> status, outcome |-> outcome, FileDescriptor |-> fd, openFds |-> fds,
   RequestedFormat |-> fmt, devFormat |-> dfmt, FramesPtr |-> init.FramesPtr,
   Frames |-> init.Frames, BufferCount |-> init.BufferCount, reqbufsOk |-> granted,
   issued |-> log, info |-> info]

NoConnectInfo ==
  [caps |-> {}, queried |-> ZeroFormat, reply |-> ZeroFormat, granted |-> 0]

\* vtkPlusV4L2VideoSource::InternalConnect with the answers e; stat finds no
\* device under the empty name of a session that was never configured
ConnectResult(e) ==
  LET untouched == InitResult(PLUS_FAIL, "", FramesPtr, Frames, BufferCount, NoRequests)
      Fail(outcome, fd, fds, fmt, dfmt, log, info) ==
        ConnectReturn(PLUS_FAIL, outcome, fd, fds, fmt, dfmt, untouched, FALSE, log, info)
      canOpen == e.fail # "open" /\ Cardinality(openFds) < MaxOpenFds
      fd == IF canOpen THEN NewFd ELSE InvalidFd
      fds == IF canOpen THEN openFds \cup {NewFd} ELSE openFds
      log1 == <<Req("stat", 0), Req("open", 0)>>
      log2 == Append(log1, Req("VIDIOC_QUERYCAP", 0))
      info2 == [NoConnectInfo EXCEPT !.caps = e.caps]
      log3 == log2 \o CropRequests(e.crop)
      log4 == Append(log3, Req("VIDIOC_G_FMT", 0))
      queried == devFormat
      info4 == [info2 EXCEPT !.queried = queried]
      forced == ForcedFormat(queried)
      log5 == Append(log4, Req("VIDIOC_S_FMT", 0))
      negotiated == FormatAfterSetFormat(forced, e.reply)
      info5 == [info4 EXCEPT !.reply = e.reply, !.granted = e.granted]
      init == InitBuffers(IOMethod, negotiated, e.reply.sizeimage, e)
      reqbufsOk == /\ e.fail # "reqbufs"
                   /\ \E i \in 1..Len(init.issued) : init.issued[i].req = "VIDIOC_REQBUFS"
  IN IF e.fail \in {"stat", "notchr"} \/ DeviceName = ""
     THEN Fail("DeviceNotFound", FileDescriptor, openFds, RequestedFormat, devFormat,
               <<Req("stat", 0)>>, NoConnectInfo)
     ELSE IF ~canOpen
     THEN Fail("OpenFailed", fd, fds, RequestedFormat, devFormat, log1, NoConnectInfo)
     ELSE IF e.fail = "querycap"
     THEN Fail("NotACaptureDevice", fd, fds, RequestedFormat, devFormat, log2,
               NoConnectInfo)
     ELSE IF V4L2_CAP_VIDEO_CAPTURE \notin e.caps
     THEN Fail("NotACaptureDevice", fd, fds, RequestedFormat, devFormat, log2, info2)
     ELSE IF ~TransportSupported(IOMethod, e.caps)
     THEN Fail("UnsupportedTransport", fd, fds, RequestedFormat, devFormat, log2, info2)
     ELSE IF ~ContinuesAfterCrop(e.crop)
     THEN Fail("FormatNegotiationFailed", fd, fds, RequestedFormat, devFormat, log3,
               info2)
     ELSE IF e.fail = "gfmt"
     THEN Fail("FormatNegotiationFailed", fd, fds, RequestedFormat, devFormat, log4,
               info2)
     ELSE IF e.fail = "sfmt"
     THEN Fail("FormatNegotiationFailed", fd, fds, forced, devFormat, log5, info4)
     ELSE ConnectReturn(init.status, init.outcome, fd, fds, negotiated, e.reply,
                        init, reqbufsOk, log5 \o init.issued, info5)

\* InternalConnect in front of a device whose answers are drawn from answers; a
\* successful VIDIOC_REQBUFS replaces the kernel's buffers and empties its queues
Connect(answers) ==
  /\ hazard = "none"
  /\ ~Connected
  /\ \E e \in answers :
       LET r == ConnectResult(e)
           reset == r.reqbufsOk
       IN /\ FileDescriptor' = r.FileDescriptor
          /\ openFds' = r.openFds
          /\ RequestedFormat' = r.RequestedFormat
          /\ devFormat' = r.devFormat
          /\ FramesPtr' = r.FramesPtr
          /\ Frames' = r.Frames
          /\ BufferCount' = r.BufferCount
          /\ kcount' = IF reset THEN e.granted ELSE kcount
          /\ incoming' = IF reset THEN << >> ELSE incoming
          /\ outgoing' = IF reset THEN << >> ELSE outgoing
          /\ leaked' = (leaked \/ (FramesPtr = "allocated" /\
                                   (r.FramesPtr # FramesPtr \/ r.Frames # Frames)))
          /\ Connected' = (r.status = PLUS_SUCCESS)
          /\ lastOp' = "Connect"
          /\ lastStatus' = r.status
          /\ lastOutcome' = r.outcome
          /\ prevConnectOk' = FALSE
          /\ issued' = r.issued
          /\ connectInfo' = r.info
  /\ UNCHANGED <<hostVars, utilVars, threadVars, DeviceName, IOMethod, ForceFormat, FrameNumber, sinkFrames,
                 streaming, hazard, streamObs>>

InternalConnect == Connect(ConnectAnswers)


----------------------------------------------------------------------------
(* InternalDisconnect *)

ReleaseResult(cells, ok, hz, log) ==
  [Frames |-> cells, ok |-> ok, hazard |-> hz, issued |-> log]

\* reading this->Frames[i]: what goes wrong, if anything
CellAccess(i) ==
  IF FramesPtr = "nullptr" THEN "null_dereference"
  ELSE IF FramesPtr = "freed" THEN "use_after_free"
  ELSE IF i + 1 > Len(Frames) THEN "out_of_bounds"
  ELSE "none"

\* free(p) on a region in the given state
FreeHazard(start) ==
  IF start \in {"allocated", "NULL"} THEN "none"
  ELSE IF start = "freed" THEN "double_free"
  ELSE "invalid_free"

Freed(cell) == IF cell.start = "allocated" THEN [cell EXCEPT !.start = "freed"] ELSE cell

\* munmap(start, length) succeeds on a range that is, or was, a mapping
MunmapOk(cell) == cell.start \in {"mapped", "unmapped"}

\* case IO_METHOD_READ: free(this->Frames[0].start)
ReleaseRead(cells) ==
  IF CellAccess(0) # "none" THEN ReleaseResult(cells, FALSE, CellAccess(0), NoRequests)
  ELSE IF FreeHazard(cells[1].start) # "none"
  THEN ReleaseResult(cells, FALSE, FreeHazard(cells[1].start), NoRequests)
  ELSE ReleaseResult([cells EXCEPT ![1] = Freed(cells[1])], TRUE, "none",
                     <<Req("free", 0)>>)

\* case IO_METHOD_MMAP: the munmap loop, which returns at the first failure
RECURSIVE ReleaseMmap(_, _, _)
ReleaseMmap(cells, i, log) ==
  IF ~(i < BufferCount) THEN ReleaseResult(cells, TRUE, "none", log)
  ELSE IF CellAccess(i) # "none" THEN ReleaseResult(cells, FALSE, CellAccess(i), log)
  ELSE IF ~MunmapOk(cells[i + 1])
  THEN ReleaseResult(cells, FALSE, "none", Append(log, Req("munmap", i)))
  ELSE ReleaseMmap([cells EXCEPT ![i + 1].start = "unmapped"], i + 1,
                   Append(log, Req("munmap", i)))

\* case IO_METHOD_USERPTR: the free loop
RECURSIVE ReleaseUserp(_, _, _)
ReleaseUserp(cells, i, log) ==
  IF ~(i < BufferCount) THEN ReleaseResult(cells, TRUE, "none", log)
  ELSE IF CellAccess(i) # "none" THEN ReleaseResult(cells, FALSE, CellAccess(i), log)
  ELSE IF FreeHazard(cells[i + 1].start) # "none"
  THEN ReleaseResult(cells, FALSE, FreeHazard(cells[i + 1].start), log)
  ELSE ReleaseUserp([cells EXCEPT ![i + 1] = Freed(cells[i + 1])], i + 1,
                    Append(log, Req("free", i)))

\* a Disconnect that releases as DirectRead does, whatever the mode
ReleaseBuffersAsRead(method) == ReleaseRead(Frames)

\* the switch of InternalDisconnect
ReleaseBuffers(method) ==
  IF method = IO_METHOD_READ THEN ReleaseRead(Frames)
  ELSE IF method = IO_METHOD_MMAP THEN ReleaseMmap(Frames, 0, NoRequests)
  ELSE IF method = IO_METHOD_USERPTR THEN ReleaseUserp(Frames, 0, NoRequests)
  ELSE ReleaseResult(Frames, TRUE, "none", NoRequests)

\* what InternalDisconnect leaves in BufferCount
BufferCountAfterDisconnect(count) == count

\* a region that is still allocated or mapped
Live(cell) == cell.start \in {"allocated", "mapped"}

\* what InternalDisconnect leaves in the Frames pointer after free(this->Frames)
FramesPtrAfterFree(ptr) == IF ptr = "allocated" THEN "freed" ELSE ptr

\* the cells of a freed container cannot be read any more
CellsAfterFree(ptr, cells) == IF ptr = "allocated" THEN << >> ELSE cells

\* a Disconnect that leaves the closed descriptor in the session
HandleKeptAfterClose(fd) == fd

\* this->FileDescriptor = -1 after a close that succeeded
HandleAfterClose(fd) == InvalidFd

CloseAnswers == {"ok", "fails"}

\* vtkPlusV4L2VideoSource::InternalDisconnect; close answers closeAns, and it
\* releases the descriptor whether or not it reports an error
DisconnectResult(closeAns) ==
  LET rel == ReleaseBuffers(IOMethod)
      Ret(status, outcome, hz, cells, ptr, fd, fds, log) ==
        [status |-> status, outcome |-> outcome, hazard |-> hz, Frames |-> cells,
         FramesPtr |-> ptr, FileDescriptor |-> fd, openFds |-> fds, issued |-> log,
         lost |-> (ptr # FramesPtr /\ \E k \in 1..Len(rel.Frames) : Live(rel.Frames[k]))]
      closeOk == FileDescriptor \in openFds /\ closeAns = "ok"
      fds == openFds \ {FileDescriptor}
      log == rel.issued \o <<Req("free_Frames", 0), Req("close", 0),
                              Req("close_returned", IF closeOk THEN 0 ELSE 0 - 1)>>
  IN IF rel.hazard # "none"
     THEN Ret(PLUS_FAIL, "Aborted", rel.hazard, Frames, FramesPtr, FileDescriptor,
              openFds, rel.issued)
     ELSE IF ~rel.ok
     THEN Ret(PLUS_FAIL, "UnmapFailed", "none", rel.Frames, FramesPtr, FileDescriptor,
              openFds, rel.issued)
     ELSE IF FramesPtr = "freed"
     THEN Ret(PLUS_FAIL, "Aborted", "double_free", rel.Frames, FramesPtr,
              FileDescriptor, openFds, rel.issued)
     ELSE IF ~closeOk
     THEN Ret(PLUS_FAIL, "CloseFailed", "none", CellsAfterFree(FramesPtr, rel.Frames),
              FramesPtrAfterFree(FramesPtr), FileDescriptor, fds, log)
     ELSE Ret(PLUS_SUCCESS, "Disconnected", "none", CellsAfterFree(FramesPtr, rel.Frames),
              FramesPtrAfterFree(FramesPtr), HandleAfterClose(FileDescriptor), fds, log)

\* closing the descriptor ends the stream and releases the kernel's buffers
InternalDisconnect ==
  /\ hazard = "none"
  /\ \E closeAns \in CloseAnswers :
       LET r == DisconnectResult(closeAns)
           gone == r.openFds # openFds
       IN /\ Frames' = r.Frames
          /\ FramesPtr' = r.FramesPtr
          /\ BufferCount' = BufferCountAfterDisconnect(BufferCount)
          /\ FileDescriptor' = r.FileDescriptor
          /\ openFds' = r.openFds
          /\ hazard' = r.hazard
          /\ leaked' = (leaked \/ r.lost)
          /\ kcount' = IF gone THEN 0 ELSE kcount
          /\ streaming' = IF gone THEN FALSE ELSE streaming
          /\ incoming' = IF gone THEN << >> ELSE incoming
          /\ outgoing' = IF gone THEN << >> ELSE outgoing
          /\ lastStatus' = r.status
          /\ lastOutcome' = r.outcome
          /\ issued' = r.issued
  /\ Connected' = FALSE
  /\ lastOp' = "Disconnect"
  /\ prevConnectOk' = (lastOp = "Connect" /\ lastStatus = PLUS_SUCCESS)
  /\ runOk' = 0
  /\ runQbufs' = 0
  /\ connectInfo' = NoConnectInfo
  /\ raceObs' = IF updateThread.pc = "selected"
                THEN [raceObs EXCEPT !.overlapped = TRUE] ELSE raceObs
  /\ UNCHANGED <<hostVars, utilVars, updateThread, DeviceName, IOMethod, ForceFormat, RequestedFormat, FrameNumber,
                 sinkFrames, devFormat, requeuedQueued>>

----------------------------------------------------------------------------
(* The kernel's side of the buffer queues *)

InKernel(inc, out, i) ==
  \/ \E k \in 1..Len(inc) : inc[k] = i
  \/ \E k \in 1..Len(out) : out[k] = i

\* VIDIOC_QBUF of buffer i is refused for an index the kernel did not grant and for
\* a buffer it already holds
QbufAccepted(inc, out, i) == i >= 0 /\ i < kcount /\ ~InKernel(inc, out, i)

\* the driver fills the oldest queued buffer and moves it to the outgoing queue
KernelFill ==
  /\ hazard = "none"
  /\ streaming
  /\ incoming # << >>
  /\ incoming' = Tail(incoming)
  /\ outgoing' = Append(outgoing, Head(incoming))
  /\ UNCHANGED <<hostVars, utilVars, threadVars, sessionVars, sinkFrames, Connected, openFds, devFormat, kcount,
                 streaming, leaked, hazard, obsVars>>

----------------------------------------------------------------------------
(* InternalStartRecording *)

\* nothing fails, VIDIOC_STREAMON fails, or VIDIOC_QBUF fails for the first or the
\* last of count buffers
StartAnswers(count) ==
  { [fail |-> "none", failIdx |-> 0], [fail |-> "streamon", failIdx |-> 0] }
  \cup { [fail |-> "qbuf", failIdx |-> k] : k \in {0, count - 1} }

StartResult(status, outcome, inc, on, log) ==
  [status |-> status, outcome |-> outcome, incoming |-> inc, streaming |-> on,
   issued |-> log]

\* a queue loop that names buffer 0 in every descriptor
StartDescriptorFirst(i) == 0

\* buf.index = i
StartDescriptor(i) == i

\* the fields case IO_METHOD_USERPTR adds to the descriptor: the address of
\* Frames[i] (a region is known by its index) and its length
UserpDescriptor(method, i) ==
  IF method = IO_METHOD_USERPTR
  THEN <<Req("buf.m.userptr", i), Req("buf.length", Frames[i + 1].length)>>
  ELSE NoRequests

\* a queue loop that goes on after a VIDIOC_QBUF that failed
StartQbufFailureIgnored(ret) == FALSE

\* -1 == xioctl(this->FileDescriptor, VIDIOC_QBUF, &buf) in the queue loop
StartQbufFailed(ret) == ret = 0 - 1

\* the queue loop of case IO_METHOD_MMAP / IO_METHOD_USERPTR followed by
\* VIDIOC_STREAMON; the kernel queues a buffer and starts the stream when it
\* answers 0
RECURSIVE StartLoop(_, _, _, _)
StartLoop(i, inc, e, log) ==
  IF i < BufferCount
  THEN LET idx == StartDescriptor(i)
           refused == (e.fail = "qbuf" /\ e.failIdx = i) \/ ~QbufAccepted(inc, outgoing, idx)
           ret == IF refused THEN 0 - 1 ELSE 0
           inc2 == IF refused THEN inc ELSE Append(inc, idx)
           log2 == log \o UserpDescriptor(IOMethod, i)
                       \o <<Req("VIDIOC_QBUF", idx), Req("VIDIOC_QBUF_returned", ret)>>
       IN IF StartQbufFailed(ret)
          THEN StartResult(PLUS_FAIL, "StreamOnFailed", inc2, streaming, log2)
          ELSE StartLoop(i + 1, inc2, e, log2)
  ELSE IF e.fail = "streamon"
  THEN StartResult(PLUS_FAIL, "StreamOnFailed", inc, streaming,
                   log \o <<Req("VIDIOC_STREAMON", 0),
                             Req("VIDIOC_STREAMON_returned", 0 - 1)>>)
  ELSE StartResult(PLUS_SUCCESS, "Streaming", inc, TRUE,
                   log \o <<Req("VIDIOC_STREAMON", 0),
                             Req("VIDIOC_STREAMON_returned", 0)>>)

\* a queue loop that starts at buffer 1
StartRecordingSkippingFirst(e) ==
  IF IOMethod \in {IO_METHOD_MMAP, IO_METHOD_USERPTR}
  THEN StartLoop(1, incoming, e, NoRequests)
  ELSE StartResult(PLUS_SUCCESS, "Streaming", incoming, streaming, NoRequests)

\* vtkPlusV4L2VideoSource::InternalStartRecording
StartRecordingResult(e) ==
  IF IOMethod \in {IO_METHOD_MMAP, IO_METHOD_USERPTR}
  THEN StartLoop(0, incoming, e, NoRequests)
  ELSE StartResult(PLUS_SUCCESS, "Streaming", incoming, streaming, NoRequests)

\* a queue loop that counts in this->BufferCount, as the loop of InitMmap does
BufferCountAsLoopCounter(count, queued) == queued

\* the queue loops count in a local i and leave this->BufferCount alone
BufferCountAfterStart(count, queued) == count

InternalStartRecording ==
  /\ hazard = "none"
  /\ Connected
  /\ \E e \in StartAnswers(BufferCount) :
       LET r == StartRecordingResult(e)
       IN /\ incoming' = r.incoming
          /\ BufferCount' = BufferCountAfterStart(BufferCount,
                                                  Len(r.incoming) - Len(incoming))
          /\ streaming' = r.streaming
          /\ lastStatus' = r.status
          /\ lastOutcome' = r.outcome
          /\ issued' = r.issued
  /\ lastOp' = "StartRecording"
  /\ prevConnectOk' = (lastOp = "Connect" /\ lastStatus = PLUS_SUCCESS)
  /\ runOk' = 0
  /\ runQbufs' = 0
  /\ connectInfo' = NoConnectInfo
  /\ UNCHANGED <<hostVars, utilVars, threadVars, DeviceName, IOMethod, ForceFormat, FileDescriptor, FramesPtr, Frames,
                 RequestedFormat, FrameNumber, sinkFrames, Connected, openFds,
                 devFormat, kcount, outgoing, leaked, hazard, requeuedQueued>>

----------------------------------------------------------------------------
(* InternalStopRecording *)

\* a StopRecording that reports a failed VIDIOC_STREAMOFF
StopRecordingStatusChecked(streamoffOk) ==
  IF streamoffOk THEN PLUS_SUCCESS ELSE PLUS_FAIL

\* vtkPlusV4L2VideoSource::InternalStopRecording: the status does not depend on
\* the answer to VIDIOC_STREAMOFF
StopRecordingStatus(streamoffOk) == PLUS_SUCCESS

InternalStopRecording ==
  /\ hazard = "none"
  /\ Connected
  /\ \E streamoffOk \in BOOLEAN :
       LET asks == IOMethod \in {IO_METHOD_MMAP, IO_METHOD_USERPTR}
           off == asks /\ streamoffOk
       IN /\ streaming' = IF off THEN FALSE ELSE streaming
          /\ incoming' = IF off THEN << >> ELSE incoming
          /\ outgoing' = IF off THEN << >> ELSE outgoing
          /\ lastStatus' = StopRecordingStatus(streamoffOk)
          /\ lastOutcome' = IF asks /\ ~streamoffOk THEN "StreamOffFailed" ELSE "Stopped"
          /\ issued' = IF asks THEN <<Req("VIDIOC_STREAMOFF", 0)>> ELSE NoRequests
  /\ lastOp' = "StopRecording"
  /\ prevConnectOk' = (lastOp = "Connect" /\ lastStatus = PLUS_SUCCESS)
  /\ runOk' = 0
  /\ runQbufs' = 0
  /\ connectInfo' = NoConnectInfo
  /\ UNCHANGED <<hostVars, utilVars, threadVars, sessionVars, sinkFrames, Connected, openFds, devFormat, kcount,
                 leaked, hazard, requeuedQueued>>


----------------------------------------------------------------------------
(* InternalUpdate and ReadFrame *)

\* what select, read, VIDIOC_DQBUF and the requeueing VIDIOC_QBUF answer in one cycle
ReadReturns(length) == {0 - 1, 0, 1, length}

UpdateAnswer(sel, n, en, d, q) ==
  [select |-> sel, read |-> n, errno |-> en, dqbuf |-> d, qbuf |-> q,
   foreign |-> FALSE]

\* VIDIOC_DQBUF hands back a descriptor whose length is that of no FrameBuffer
ForeignAnswers(method, length) ==
  IF method = IO_METHOD_USERPTR
  THEN { [UpdateAnswer("ready", length, "none", "ok", q) EXCEPT !.foreign = TRUE] :
           q \in BOOLEAN }
  ELSE {}

\* the answers that matter to the mode: read's for READ, the ioctls' for the others
UpdateAnswers(method, length) ==
  { UpdateAnswer(sel, length, "none", "EAGAIN", TRUE) : sel \in {"error", "timeout"} }
  \cup
  { UpdateAnswer("interrupted", length, "EINTR", "EAGAIN", TRUE) }
  \cup
  (IF method = IO_METHOD_READ
   THEN { UpdateAnswer("ready", n, "none", "ok", TRUE) :
            n \in ReadReturns(length) \ {0 - 1} }
        \cup
        { UpdateAnswer("ready", 0 - 1, en, "ok", TRUE) :
            en \in {"EAGAIN", "EIO", "EINTR"} }
   ELSE { UpdateAnswer("ready", length, "none", d, TRUE) :
            d \in {"ok", "EAGAIN", "error", "error_dequeued"} }
        \cup
        { UpdateAnswer("ready", length, "none", "ok", FALSE) }
        \cup
        ForeignAnswers(method, length))

\* select does not time out while a filled buffer waits in the outgoing queue
SelectAdmissible(e) ==
  e.select = "timeout" =>
    (IOMethod = IO_METHOD_READ \/ ~streaming \/ outgoing = << >>)

\* VIDIOC_DQBUF, when select reported the device ready, hands out the oldest
\* filled buffer of a running stream, answers EAGAIN when none is filled, and may
\* fail otherwise
DqbufAdmissible(e) ==
  (e.select = "ready" /\ IOMethod \in {IO_METHOD_MMAP, IO_METHOD_USERPTR}) =>
    /\ e.dqbuf \in {"ok", "error_dequeued"} => (streaming /\ outgoing # << >>)
    /\ e.dqbuf = "EAGAIN" => (streaming /\ outgoing = << >>)

\* a read that counts every short read as a failure
ReadFailedWhenShort(ret, length) == ret # length

\* -1 == read(this->FileDescriptor, this->Frames[0].start, this->Frames[0].length)
ReadFailed(ret, length) == ret = 0 - 1

\* a requeue that always names buffer 0
RequeueFirstBuffer(buf) == 0

\* the descriptor given to the requeueing VIDIOC_QBUF is the one VIDIOC_DQBUF filled in
RequeueDescriptor(buf) == buf

FrameResult(status, outcome, inc, out, log, deq, req, held) ==
  [status |-> status, outcome |-> outcome, incoming |-> inc, outgoing |-> out,
   issued |-> log, dequeued |-> deq, requeued |-> req, requeueHeld |-> held]

\* the errno a failed request left behind, as an entry of the log
ErrnoEntry(en) ==
  IF en = "EAGAIN" THEN Req("errno_EAGAIN", 0)
  ELSE IF en = "EINTR" THEN Req("errno_EINTR", 0)
  ELSE Req("errno_other", 0)

\* case IO_METHOD_READ of ReadFrame
ReadFrameRead(e) ==
  LET log == <<Req("read", Frames[1].length), Req("read_returned", e.read)>>
             \o (IF e.read = 0 - 1 THEN <<ErrnoEntry(e.errno)>> ELSE NoRequests)
  IN IF ReadFailed(e.read, Frames[1].length)
     THEN FrameResult(PLUS_FAIL,
                      IF e.errno = "EAGAIN" THEN "AcquireRecoverable" ELSE "AcquireFatal",
                      incoming, outgoing, log, 0 - 1, 0 - 1, FALSE)
     ELSE FrameResult(PLUS_SUCCESS, "FrameAcquired", incoming, outgoing, log,
                      0 - 1, 0 - 1, FALSE)

\* a ReadFrame that goes on after a requeueing VIDIOC_QBUF that failed
RequeueFailureIgnored(ret) == FALSE

\* -1 == xioctl(this->FileDescriptor, VIDIOC_QBUF, &buf) after the dequeue
RequeueFailed(ret) == ret = 0 - 1

\* the for loop of case IO_METHOD_USERPTR: the index of the first FrameBuffer
\* with the address and the length of the descriptor, this->BufferCount if none
RECURSIVE MatchingFrame(_, _, _)
MatchingFrame(i, userptr, length) ==
  IF ~(i < BufferCount) \/ i + 1 > Len(Frames) THEN BufferCount
  ELSE IF userptr = i /\ length = Frames[i + 1].length THEN i
  ELSE MatchingFrame(i + 1, userptr, length)

\* a ReadFrame that gives up when the loop found no FrameBuffer
CycleFailsUnmatched(found) == found >= BufferCount

\* the index the loop stopped at is used by no statement after the loop
CycleFailsOnMatch(found) == FALSE

\* the length of the descriptor VIDIOC_DQBUF filled in
DequeuedLength(e, buf) ==
  IF e.foreign \/ buf + 1 > Len(Frames) THEN 0 ELSE Frames[buf + 1].length

\* what case IO_METHOD_USERPTR does between VIDIOC_DQBUF and VIDIOC_QBUF: the
\* descriptor it was handed, the outcome of the loop, the descriptor it hands back
UserpRequeue(e, buf, again) ==
  IF IOMethod = IO_METHOD_USERPTR
  THEN <<Req("dequeued.m.userptr", buf), Req("dequeued.length", DequeuedLength(e, buf)),
         Req("matched", MatchingFrame(0, buf, DequeuedLength(e, buf))),
         Req("requeued.m.userptr", again),
         Req("requeued.length", DequeuedLength(e, buf))>>
  ELSE NoRequests

\* case IO_METHOD_MMAP and case IO_METHOD_USERPTR of ReadFrame: VIDIOC_DQBUF, for
\* USERPTR the search for the matching FrameBuffer, VIDIOC_QBUF; the kernel
\* queues the buffer when it answers 0
ReadFrameStream(e) ==
  LET failed(en) == <<Req("VIDIOC_DQBUF", 0 - 1), Req("VIDIOC_DQBUF_returned", 0 - 1),
                      ErrnoEntry(en)>>
      buf == Head(outgoing)
      out2 == Tail(outgoing)
      again == RequeueDescriptor(buf)
      held == InKernel(incoming, out2, again)
      accepted == e.qbuf /\ QbufAccepted(incoming, out2, again)
      ret == IF accepted THEN 0 ELSE 0 - 1
      inc2 == IF accepted THEN Append(incoming, again) ELSE incoming
      unmatched == /\ IOMethod = IO_METHOD_USERPTR
                   /\ CycleFailsOnMatch(MatchingFrame(0, buf, DequeuedLength(e, buf)))
      log2 == <<Req("VIDIOC_DQBUF", buf)>> \o UserpRequeue(e, buf, again)
                \o <<Req("VIDIOC_QBUF", again), Req("VIDIOC_QBUF_returned", ret)>>
  IN IF e.dqbuf = "EAGAIN"
     THEN FrameResult(PLUS_FAIL, "AcquireRecoverable", incoming, outgoing,
                      failed("EAGAIN"), 0 - 1, 0 - 1, FALSE)
     ELSE IF e.dqbuf = "error"
     THEN FrameResult(PLUS_FAIL, "AcquireFatal", incoming, outgoing, failed("EIO"),
                      0 - 1, 0 - 1, FALSE)
     ELSE IF e.dqbuf = "error_dequeued"
     THEN FrameResult(PLUS_FAIL, "AcquireFatal", incoming, out2, failed("EIO"),
                      0 - 1, 0 - 1, FALSE)
     ELSE IF unmatched
     THEN FrameResult(PLUS_FAIL, "AcquireFatal", incoming, out2,
                      <<Req("VIDIOC_DQBUF", buf)>> \o UserpRequeue(e, buf, again),
                      buf, 0 - 1, FALSE)
     ELSE IF RequeueFailed(ret)
     THEN FrameResult(PLUS_FAIL, "AcquireFatal", inc2, out2, log2, buf, 0 - 1, held)
     ELSE FrameResult(PLUS_SUCCESS, "FrameAcquired", inc2, out2, log2, buf, again, held)

\* vtkPlusV4L2VideoSource::ReadFrame
ReadFrame(e) ==
  IF IOMethod = IO_METHOD_READ THEN ReadFrameRead(e)
  ELSE IF IOMethod \in {IO_METHOD_MMAP, IO_METHOD_USERPTR} THEN ReadFrameStream(e)
  ELSE FrameResult(PLUS_SUCCESS, "FrameAcquired", incoming, outgoing, NoRequests,
                   0 - 1, 0 - 1, FALSE)

\* this->FrameNumber++ placed before the status of ReadFrame is looked at
NextFrameNumberAlways(fn, status) == fn + 1

\* a counter that starts over when a cycle fails
NextFrameNumberResetOnFailure(fn, status) == IF status = PLUS_SUCCESS THEN fn + 1 ELSE 0

\* this->FrameNumber++ is reached only when ReadFrame succeeded
NextFrameNumber(fn, status) == IF status = PLUS_SUCCESS THEN fn + 1 ELSE fn

\* what select returns: -1 on error and when a signal interrupts it (errno is
\* then EINTR), 0 on timeout, the number of ready descriptors
SelectReturn(sel) ==
  IF sel \in {"error", "interrupted"} THEN 0 - 1 ELSE IF sel = "timeout" THEN 0 ELSE 1

\* an update cycle without the test 0 == r
PollOutcomeNoTimeout(r) == IF r = 0 - 1 THEN "PollError" ELSE "ready"

\* an update cycle without the test -1 == r
PollOutcomeNoError(r) == IF r = 0 THEN "PollTimeout" ELSE "ready"

\* the tests -1 == r and 0 == r on what select returned
PollOutcome(r) ==
  IF r = 0 - 1 THEN "PollError" ELSE IF r = 0 THEN "PollTimeout" ELSE "ready"

\* vtkPlusV4L2VideoSource::InternalUpdate
UpdateResult(e) ==
  LET r == SelectReturn(e.select)
      sel == <<Req("select", 0), Req("select_returned", r)>>
             \o (IF e.select = "interrupted" THEN <<ErrnoEntry("EINTR")>>
                 ELSE NoRequests)
      rf == ReadFrame(e)
  IN IF PollOutcome(r) # "ready"
     THEN FrameResult(PLUS_FAIL, PollOutcome(r), incoming, outgoing, sel,
                      0 - 1, 0 - 1, FALSE)
     ELSE [rf EXCEPT !.issued = sel \o rf.issued]

\* the frames one InternalUpdate hands to a data source of the device: the
\* handler holds no call that passes the acquired buffer on
FramesHandedOver(status) == 0

QbufCount(log) == Cardinality({k \in 1..Len(log) : log[k].req = "VIDIOC_QBUF"})

\* what a cycle that ended with the result r leaves in the session, in the
\* kernel's queues and in the observations
CycleEffect(r) ==
  LET ok == r.status = PLUS_SUCCESS
  IN /\ FrameNumber' = NextFrameNumber(FrameNumber, r.status)
     /\ sinkFrames' = sinkFrames + FramesHandedOver(r.status)
     /\ incoming' = r.incoming
     /\ outgoing' = r.outgoing
     /\ lastStatus' = r.status
     /\ lastOutcome' = r.outcome
     /\ issued' = r.issued
     /\ runOk' = IF ~ok THEN 0 ELSE IF runOk < MaxRun THEN runOk + 1 ELSE 1
     /\ runQbufs' = IF ~ok THEN 0
                    ELSE IF runOk < MaxRun THEN runQbufs + QbufCount(r.issued)
                    ELSE QbufCount(r.issued)
     /\ requeuedQueued' = (requeuedQueued \/ r.requeueHeld)

\* vtkPlusV4L2VideoSource::InternalUpdate as an action; limit caps FrameNumber
Update(limit) ==
  /\ hazard = "none"
  /\ Connected
  /\ FrameNumber < limit
  /\ \E e \in UpdateAnswers(IOMethod,
                            IF IOMethod = IO_METHOD_READ THEN Frames[1].length ELSE 0) :
       /\ SelectAdmissible(e)
       /\ DqbufAdmissible(e)
       /\ CycleEffect(UpdateResult(e))
  /\ lastOp' = "Update"
  /\ prevConnectOk' = (lastOp = "Connect" /\ lastStatus = PLUS_SUCCESS)
  /\ connectInfo' = NoConnectInfo
  /\ UNCHANGED <<hostVars, utilVars, threadVars, DeviceName, IOMethod, ForceFormat, FileDescriptor, FramesPtr, Frames,
                 BufferCount, RequestedFormat, Connected, openFds, devFormat, kcount,
                 streaming, leaked, hazard>>

InternalUpdate == Update(MaxFrameNumber)

----------------------------------------------------------------------------
(* InternalUpdate run by a thread of its own, in two steps: select, then     *)
(* ReadFrame.  Nothing in the class keeps another thread from running        *)
(* InternalDisconnect between the two.                                       *)

\* select(this->FileDescriptor + 1, ...) reported the device readable
UpdateSelect ==
  /\ hazard = "none"
  /\ Connected
  /\ FrameNumber < MaxFrameNumber
  /\ updateThread.pc = "idle"
  /\ updateThread' = [pc |-> "selected", fd |-> FileDescriptor]
  /\ raceObs' = NoRace
  /\ UNCHANGED <<sessionVars, sinkFrames, Connected, kernelVars, leaked, hazard,
                 obsVars, hostVars, utilVars>>

\* a ReadFrame that works on a descriptor nobody opened
ReadFrameDescriptorUnset(fd) == InvalidFd

\* the descriptor ReadFrame hands to read and to xioctl: this->FileDescriptor
ReadFrameDescriptor(fd) == fd

\* this->FileDescriptor as ReadFrame may see it when another thread has written
\* it since select: the value select used, or the value it holds now
DescriptorsRead == {updateThread.fd, FileDescriptor}

\* read or VIDIOC_DQBUF on a descriptor that is not open fails with EBADF
BadDescriptorResult(sel) ==
  FrameResult(PLUS_FAIL, "AcquireFatal", incoming, outgoing,
              sel \o (IF IOMethod = IO_METHOD_READ
                      THEN <<Req("read", 0), Req("read_returned", 0 - 1),
                             ErrnoEntry("EBADF")>>
                      ELSE <<Req("VIDIOC_DQBUF", 0 - 1),
                             Req("VIDIOC_DQBUF_returned", 0 - 1), ErrnoEntry("EBADF")>>),
              0 - 1, 0 - 1, FALSE)

\* the cycle never got to its request: evaluating this->Frames[0] went wrong
AbortedResult(sel) ==
  FrameResult(PLUS_FAIL, "Aborted", incoming, outgoing, sel, 0 - 1, 0 - 1, FALSE)

\* ReadFrame of the cycle that UpdateSelect began, and the rest of InternalUpdate
UpdateReadFrame ==
  /\ hazard = "none"
  /\ updateThread.pc = "selected"
  /\ updateThread' = Idle
  /\ \E seen \in DescriptorsRead :
       LET fd == ReadFrameDescriptor(seen)
           sel == <<Req("select", 0), Req("select_returned", 1)>>
           closed == fd \notin openFds
           access == IF IOMethod = IO_METHOD_READ THEN CellAccess(0) ELSE "none"
       IN IF access # "none"
          THEN /\ CycleEffect(AbortedResult(sel))
               /\ hazard' = access
               /\ raceObs' = [raceObs EXCEPT !.closedHandle = closed,
                                             !.releasedBuffer = (FramesPtr = "freed")]
          ELSE IF closed
          THEN /\ CycleEffect(BadDescriptorResult(sel))
               /\ hazard' = hazard
               /\ raceObs' = [raceObs EXCEPT !.closedHandle = TRUE]
          ELSE /\ \E e \in UpdateAnswers(IOMethod,
                                         IF IOMethod = IO_METHOD_READ
                                         THEN Frames[1].length ELSE 0) :
                    /\ e.select = "ready"
                    /\ DqbufAdmissible(e)
                    /\ CycleEffect(UpdateResult(e))
               /\ hazard' = hazard
               /\ raceObs' = raceObs
  /\ lastOp' = "Update"
  /\ prevConnectOk' = (lastOp = "Connect" /\ lastStatus = PLUS_SUCCESS)
  /\ connectInfo' = NoConnectInfo
  /\ UNCHANGED <<DeviceName, IOMethod, ForceFormat, FileDescriptor, FramesPtr, Frames,
                 BufferCount, RequestedFormat, Connected, openFds, devFormat, kcount,
                 streaming, leaked, hostVars, utilVars>>

----------------------------------------------------------------------------
(* ReadConfiguration *)

DeviceNames == {"/dev/video0"}

ConfigStrings ==
  {"IO_METHOD_READ", "io_method_read", "IO_METHOD_MMAP", "Io_Method_Mmap",
   "IO_METHOD_USERPTR", "io_method_userptr", "IO_METHOD_UNKNOWN", "IO_METHOD_DMA", ""}

\* upper-casing, on the strings of the model
ToUpper(str) ==
  IF str = "io_method_read" THEN "IO_METHOD_READ"
  ELSE IF str = "Io_Method_Mmap" THEN "IO_METHOD_MMAP"
  ELSE IF str = "io_method_userptr" THEN "IO_METHOD_USERPTR"
  ELSE str

\* PlusCommon::IsEqualInsensitive
IsEqualInsensitive(a, b) == ToUpper(a) = ToUpper(b)

\* a conversion that compares the name as it is written
StringToIOMethodExact(method) ==
  IF method = "IO_METHOD_READ" THEN IO_METHOD_READ
  ELSE IF method = "IO_METHOD_MMAP" THEN IO_METHOD_MMAP
  ELSE IF method = "IO_METHOD_USERPTR" THEN IO_METHOD_USERPTR
  ELSE IO_METHOD_UNKNOWN

\* vtkPlusV4L2VideoSource::StringToIOMethod
StringToIOMethod(method) ==
  IF IsEqualInsensitive(method, "IO_METHOD_READ") THEN IO_METHOD_READ
  ELSE IF IsEqualInsensitive(method, "IO_METHOD_MMAP") THEN IO_METHOD_MMAP
  ELSE IF IsEqualInsensitive(method, "IO_METHOD_USERPTR") THEN IO_METHOD_USERPTR
  ELSE IO_METHOD_UNKNOWN

\* vtkPlusV4L2VideoSource::IOMethodToString
IOMethodToString(ioMethod) ==
  IF ioMethod = IO_METHOD_READ THEN "IO_METHOD_READ"
  ELSE IF ioMethod = IO_METHOD_MMAP THEN "IO_METHOD_MMAP"
  ELSE IF ioMethod = IO_METHOD_USERPTR THEN "IO_METHOD_USERPTR"
  ELSE "IO_METHOD_UNKNOWN"

\* vtkPlusV4L2VideoSource::StringToFormat, on the names of the model
StringToFormat(format) ==
  IF IsEqualInsensitive("V4L2_PIX_FMT_GREY", format) THEN "GREY"
  ELSE IF IsEqualInsensitive("V4L2_PIX_FMT_YUYV", format) THEN "YUYV"
  ELSE "xxxx"

\* vtkPlusV4L2VideoSource::StringToFieldOrder, on the names of the model
StringToFieldOrder(field) ==
  IF IsEqualInsensitive("V4L2_FIELD_ANY", field) THEN "ANY"
  ELSE IF IsEqualInsensitive("V4L2_FIELD_NONE", field) THEN "NONE"
  ELSE IF IsEqualInsensitive("V4L2_FIELD_INTERLACED", field) THEN "INTERLACED"
  ELSE "ANY"

\* the optional attributes FrameSize, PixelFormat and FieldOrder of a device
\* element: none of them, the frame size alone, all three
NoAttribute == "absent"

NoVector == << >>

FormatAttributes ==
  { [FrameSize |-> NoVector, PixelFormat |-> NoAttribute, FieldOrder |-> NoAttribute],
    [FrameSize |-> <<320, 240, 1>>, PixelFormat |-> NoAttribute,
     FieldOrder |-> NoAttribute],
    [FrameSize |-> <<320, 240, 1>>, PixelFormat |-> "V4L2_PIX_FMT_GREY",
     FieldOrder |-> "V4L2_FIELD_NONE"] }

\* the fields of RequestedFormat that ReadConfiguration writes
ConfiguredFormat(fmt, attrs) ==
  LET sized == IF attrs.FrameSize # NoVector
               THEN [fmt EXCEPT !.width = attrs.FrameSize[1],
                                !.height = attrs.FrameSize[2]]
               ELSE fmt
      encoded == IF attrs.PixelFormat # NoAttribute
                 THEN [sized EXCEPT !.pixelformat = StringToFormat(attrs.PixelFormat)]
                 ELSE sized
  IN IF attrs.FieldOrder # NoAttribute
     THEN [encoded EXCEPT !.field = StringToFieldOrder(attrs.FieldOrder)]
     ELSE encoded

\* the IOMethod attribute of the device element, where WriteConfiguration puts
\* it: absent (the empty string), or one of two mode names
DeviceConfigStrings == {"", "IO_METHOD_MMAP", "io_method_userptr"}

\* the attributes named IOMethod that the configuration carries: on the root
\* element and on the device element
AttributesRead(rootAttr, deviceAttr) ==
  <<Req("rootConfigElement.IOMethod", 0), Req(rootAttr, 0),
    Req("deviceConfig.IOMethod", 0), Req(deviceAttr, 0)>>

\* XML_READ_STRING_ATTRIBUTE_NONMEMBER_OPTIONAL(IOMethod, ioMethod, rootConfigElement):
\* the string comes from the root element, and is empty if the root has no such
\* attribute
IOMethodAttribute(rootAttr, deviceAttr) == rootAttr

\* this->IOMethod after ReadConfiguration was given the string ioMethod
ConfiguredMethod(current, ioMethod) ==
  IF StringToIOMethod(ioMethod) # IO_METHOD_UNKNOWN
  THEN StringToIOMethod(ioMethod) ELSE current

\* vtkPlusV4L2VideoSource::ReadConfiguration, for a record that names the device;
\* the configuration is read before the session first connects
ReadConfiguration ==
  /\ hazard = "none"
  /\ lastOp \in {"None", "ReadConfiguration"}
  /\ \E name \in DeviceNames, rootAttr \in ConfigStrings,
        deviceAttr \in DeviceConfigStrings, attrs \in FormatAttributes :
       LET ioMethod == IOMethodAttribute(rootAttr, deviceAttr)
       IN
       /\ issued' = AttributesRead(rootAttr, deviceAttr)
       /\ DeviceName' = name
       /\ IOMethod' = ConfiguredMethod(IOMethod, ioMethod)
       /\ RequestedFormat' = ConfiguredFormat(RequestedFormat, attrs)
       /\ lastOutcome' = IF StringToIOMethod(ioMethod) # IO_METHOD_UNKNOWN
                         THEN "Configured" ELSE "UnknownMethodWarning"
  /\ lastOp' = "ReadConfiguration"
  /\ lastStatus' = PLUS_SUCCESS
  /\ prevConnectOk' = FALSE
  /\ UNCHANGED <<hostVars, utilVars, threadVars, ForceFormat, FileDescriptor, FramesPtr, Frames, BufferCount,
                 FrameNumber, sinkFrames, Connected, kernelVars, leaked, hazard,
                 connectInfo, streamObs>>

----------------------------------------------------------------------------
(* WriteConfiguration, and ReadConfiguration of what it wrote *)

\* the attributes WriteConfiguration leaves in an empty configuration: DeviceName
\* (if not empty) and IOMethod on the device element, nothing on the root
WrittenRecord(name, method) ==
  [root |-> "", device |-> IOMethodToString(method), name |-> name]

\* vtkPlusV4L2VideoSource::WriteConfiguration
WriteConfiguration ==
  /\ hazard = "none"
  /\ written' = [done |-> TRUE, DeviceName |-> DeviceName, IOMethod |-> IOMethod,
                 record |-> WrittenRecord(DeviceName, IOMethod)]
  /\ readBack' = NothingRead
  /\ UNCHANGED <<sessionVars, sinkFrames, Connected, kernelVars, leaked, hazard,
                 obsVars, threadVars, hostVars, converted, ioctlObs>>

\* the members of a session that was just constructed
FreshDeviceName == ""
FreshIOMethod == IO_METHOD_READ

\* vtkPlusV4L2VideoSource::ReadConfiguration of the written record by a session
\* that was just constructed; it fails when the record has no DeviceName
ReadWrittenConfiguration ==
  /\ hazard = "none"
  /\ written.done
  /\ readBack' =
       IF written.record.name = ""
       THEN [done |-> TRUE, status |-> PLUS_FAIL, DeviceName |-> FreshDeviceName,
             IOMethod |-> FreshIOMethod]
       ELSE [done |-> TRUE, status |-> PLUS_SUCCESS,
             DeviceName |-> written.record.name,
             IOMethod |-> ConfiguredMethod(FreshIOMethod,
                            IOMethodAttribute(written.record.root,
                                              written.record.device))]
  /\ UNCHANGED <<sessionVars, sinkFrames, Connected, kernelVars, leaked, hazard,
                 obsVars, threadVars, hostVars, written, converted, ioctlObs>>

----------------------------------------------------------------------------
(* The conversions between transport modes and their names *)

\* StringToIOMethod applied to a string, and IOMethodToString followed by
\* StringToIOMethod applied to a mode
ConvertMode ==
  /\ hazard = "none"
  /\ \E str \in ConfigStrings, m \in IOMethods \cup {IO_METHOD_UNKNOWN} :
       converted' = [done |-> TRUE, input |-> str, mode |-> StringToIOMethod(str),
                     from |-> m, name |-> IOMethodToString(m),
                     back |-> StringToIOMethod(IOMethodToString(m))]
  /\ UNCHANGED <<sessionVars, sinkFrames, Connected, kernelVars, leaked, hazard,
                 obsVars, threadVars, hostVars, written, readBack, ioctlObs>>

----------------------------------------------------------------------------
(* NotifyConfigured *)

\* the host defines one more output channel for the device
AddOutputChannel ==
  /\ hazard = "none"
  /\ OutputChannels < MaxChannels
  /\ OutputChannels' = OutputChannels + 1
  /\ UNCHANGED <<sessionVars, sinkFrames, Connected, kernelVars, leaked, hazard,
                 obsVars, threadVars, CorrectlyConfigured, utilVars>>

\* a test that wants two channels
ChannelsMissingBelowTwo(channels) == channels < 2

\* this->OutputChannels.empty()
ChannelsMissing(channels) == channels = 0

\* vtkPlusV4L2VideoSource::NotifyConfigured
NotifyConfigured ==
  /\ hazard = "none"
  /\ CorrectlyConfigured' = IF ChannelsMissing(OutputChannels) THEN FALSE
                            ELSE CorrectlyConfigured
  /\ lastStatus' = IF ChannelsMissing(OutputChannels) THEN PLUS_FAIL ELSE PLUS_SUCCESS
  /\ lastOutcome' = IF ChannelsMissing(OutputChannels) THEN "NoOutputChannel"
                    ELSE "Configured"
  /\ lastOp' = "NotifyConfigured"
  /\ prevConnectOk' = FALSE
  /\ issued' = NoRequests
  /\ UNCHANGED <<sessionVars, sinkFrames, Connected, kernelVars, leaked, hazard,
                 connectInfo, streamObs, threadVars, OutputChannels, utilVars>>

----------------------------------------------------------------------------
(* xioctl *)

IoctlAnswer(r, en) == [r |-> r, errno |-> en]

\* what ioctl answers once it is not interrupted
FinalAnswers ==
  {IoctlAnswer(0, "none"), IoctlAnswer(0 - 1, "EIO"), IoctlAnswer(0 - 1, "EAGAIN")}

RECURSIVE Interrupted(_)
Interrupted(n) ==
  IF n = 0 THEN << >> ELSE Append(Interrupted(n - 1), IoctlAnswer(0 - 1, "EINTR"))

\* the answers of ioctl to one request issued again and again: interrupted up
\* to MaxInterrupts times, then answered
IoctlAnswers ==
  { Append(Interrupted(n), f) : n \in 0..MaxInterrupts, f \in FinalAnswers }

\* xioctl: do r = ioctl(...) while (-1 == r && EINTR == errno); answers are the
\* answers of the successive calls, calls counts those made so far
RECURSIVE xioctl(_, _)
xioctl(answers, calls) ==
  LET a == Head(answers)
  IN IF a.r = 0 - 1 /\ a.errno = "EINTR" /\ Len(answers) > 1
     THEN xioctl(Tail(answers), calls + 1)
     ELSE [result |-> a.r, errno |-> a.errno, calls |-> calls + 1]

\* one request issued through xioctl
XioctlCall ==
  /\ hazard = "none"
  /\ \E answers \in IoctlAnswers :
       LET res == xioctl(answers, 0)
       IN ioctlObs' = [done |-> TRUE, interrupts |-> Len(answers) - 1,
                       calls |-> res.calls, result |-> res.result,
                       errno |-> res.errno]
  /\ UNCHANGED <<sessionVars, sinkFrames, Connected, kernelVars, leaked, hazard,
                 obsVars, threadVars, hostVars, written, readBack, converted>>

----------------------------------------------------------------------------
(* The session after construction, in front of a device that has some format *)

Init ==
  /\ DeviceName = ""
  /\ IOMethod = IO_METHOD_READ
  /\ ForceFormat = FALSE
  /\ FileDescriptor = InvalidFd
  /\ FramesPtr = "nullptr"
  /\ Frames = << >>
  /\ BufferCount = 0
  /\ RequestedFormat = ZeroFormat
  /\ FrameNumber = 0
  /\ sinkFrames = 0
  /\ Connected = FALSE
  /\ openFds = {}
  /\ devFormat \in DeviceFormats
  /\ kcount = 0
  /\ streaming = FALSE
  /\ incoming = << >>
  /\ outgoing = << >>
  /\ leaked = FALSE
  /\ hazard = "none"
  /\ lastOp = "None"
  /\ lastStatus = PLUS_SUCCESS
  /\ lastOutcome = "Constructed"
  /\ prevConnectOk = FALSE
  /\ issued = NoRequests
  /\ connectInfo = NoConnectInfo
  /\ runOk = 0
  /\ runQbufs = 0
  /\ requeuedQueued = FALSE
  /\ updateThread = Idle
  /\ raceObs = NoRace
  /\ OutputChannels = 0
  /\ CorrectlyConfigured = TRUE
  /\ written = NothingWritten
  /\ readBack = NothingRead
  /\ converted = NothingConverted
  /\ ioctlObs = NoCall

Next ==
  \/ ReadConfiguration
  \/ InternalConnect
  \/ InternalStartRecording
  \/ InternalUpdate
  \/ InternalStopRecording
  \/ InternalDisconnect
  \/ KernelFill

Spec == Init /\ [][Next]_vars

----------------------------------------------------------------------------
(* One capture session that is never stopped: the host connects, starts the   *)
(* stream and keeps invoking update cycles; the kernel keeps filling queued   *)
(* buffers and a cycle that finds a filled buffer eventually gets through.    *)

\* room for one cycle on every buffer of the largest pool
MaxLiveFrameNumber == MaxGranted

LiveUpdate == Update(MaxLiveFrameNumber)

LiveNext ==
  \/ ReadConfiguration
  \/ InternalConnect
  \/ InternalStartRecording
  \/ LiveUpdate
  \/ KernelFill

LiveSpec ==
  /\ Init
  /\ [][LiveNext]_vars
  /\ WF_vars(KernelFill)
  /\ WF_vars(LiveUpdate /\ lastOutcome' = "FrameAcquired")

----------------------------------------------------------------------------
(* Sessions that are connected and disconnected in front of devices that     *)
(* grant any number of buffers.                                              *)

WideConnect == Connect(WideGrantAnswers)

GrantNext ==
  \/ ReadConfiguration
  \/ WideConnect
  \/ InternalDisconnect

GrantSpec == Init /\ [][GrantNext]_vars

----------------------------------------------------------------------------
(* A host with two threads: one runs the update cycles, the other every     *)
(* other handler.  The host keeps the other handlers out of a cycle, except  *)
(* InternalDisconnect.                                                       *)

OutsideCycle == updateThread.pc = "idle"

ThreadReadConfiguration == OutsideCycle /\ ReadConfiguration

ThreadConnect == OutsideCycle /\ InternalConnect

ThreadStartRecording == OutsideCycle /\ InternalStartRecording

ThreadStopRecording == OutsideCycle /\ InternalStopRecording

\* InternalDisconnect between two cycles
SerializedDisconnect == OutsideCycle /\ InternalDisconnect

\* InternalDisconnect between the select and the ReadFrame of a cycle
RacingDisconnect == updateThread.pc = "selected" /\ InternalDisconnect

ThreadNext ==
  \/ ThreadReadConfiguration
  \/ ThreadConnect
  \/ ThreadStartRecording
  \/ ThreadStopRecording
  \/ SerializedDisconnect
  \/ RacingDisconnect
  \/ UpdateSelect
  \/ UpdateReadFrame
  \/ KernelFill

ThreadSpec == Init /\ [][ThreadNext]_vars

----------------------------------------------------------------------------
(* The host configures the device: it reads a configuration, defines output  *)
(* channels, notifies the device, and writes the configuration out for a     *)
(* session that reads it back.                                               *)

ConfigNext ==
  \/ ReadConfiguration
  \/ AddOutputChannel
  \/ NotifyConfigured
  \/ WriteConfiguration
  \/ ReadWrittenConfiguration

ConfigSpec == Init /\ [][ConfigNext]_vars

ConvertNext ==
  \/ ReadConfiguration
  \/ ConvertMode

ConvertSpec == Init /\ [][ConvertNext]_vars

SignalNext ==
  \/ ReadConfiguration
  \/ InternalConnect
  \/ InternalUpdate
  \/ InternalDisconnect
  \/ XioctlCall

SignalSpec == Init /\ [][SignalNext]_vars

----------------------------------------------------------------------------
(* Properties *)

StreamingModes == {IO_METHOD_MMAP, IO_METHOD_USERPTR}

Asked(name) == \E k \in 1..Len(issued) : issued[k].req = name

ConnectSucceeded == lastOp = "Connect" /\ lastStatus = PLUS_SUCCESS

ConnectFailed == lastOp = "Connect" /\ lastStatus = PLUS_FAIL

NoLiveRegion == \A k \in 1..Len(Frames) : ~Live(Frames[k])

\* C1: in each of the three modes, after a successful Connect immediately followed
\* by Disconnect every region Connect allocated or mapped has been released, none
\* is left mapped, and BufferCount is back at 0.
C1_DisconnectReleasesEverything ==
  (lastOp = "Disconnect" /\ prevConnectOk) =>
    /\ NoLiveRegion
    /\ FramesPtr # "allocated"
    /\ BufferCount = 0

\* C2: every update cycle leaves FrameNumber one higher when it returns success
\* and unchanged when it ends in a poll timeout or in EAGAIN from the acquisition.
C2_FrameNumberCountsSuccesses ==
  [][InternalUpdate =>
       /\ (lastStatus' = PLUS_SUCCESS => FrameNumber' = FrameNumber + 1)
       /\ (lastOutcome' \in {"PollTimeout", "AcquireRecoverable"} =>
             FrameNumber' = FrameNumber)]_vars

\* a cycle answered EAGAIN after a frame had been counted
C2_Witness ==
  /\ lastOp = "Update"
  /\ lastOutcome = "AcquireRecoverable"
  /\ FrameNumber = 1

\* C3: in the MMAP and USERPTR modes a run of K consecutive successful update
\* cycles has issued exactly K VIDIOC_QBUF requests, and no cycle queues a buffer
\* the kernel still holds (a requeue with no dequeue of that buffer in between).
C3_OneRequeuePerCycle ==
  IOMethod \in StreamingModes => (runQbufs = runOk /\ ~requeuedQueued)

\* two successful cycles in a row on a stream
C3_Witness ==
  /\ IOMethod \in StreamingModes
  /\ lastOp = "Update"
  /\ runOk = 2
  /\ runQbufs = 2

\* C5: a Connect in a mode whose capability the device lacks fails with
\* UnsupportedTransport, and on return the handle is -1 and the device is closed.
C5_UnsupportedTransportClosesDevice ==
  (lastOp = "Connect" /\ lastOutcome = "UnsupportedTransport") =>
    /\ lastStatus = PLUS_FAIL
    /\ FileDescriptor = InvalidFd
    /\ openFds = {}

\* C6: whenever Connect returns failure the session is disconnected: the handle is
\* invalid, no FrameBuffer is allocated or mapped, and BufferCount is 0.
C6_FailedConnectIsDisconnected ==
  ConnectFailed =>
    /\ FileDescriptor = InvalidFd
    /\ FramesPtr # "allocated"
    /\ NoLiveRegion
    /\ BufferCount = 0

\* C7: with ForceFormat false a successful Connect leaves the width, height and
\* pixel encoding the device reported for its current format, and issues no
\* VIDIOC_S_FMT.
C7_QueriedFormatKept ==
  (ConnectSucceeded /\ ~ForceFormat) =>
    /\ RequestedFormat.width = connectInfo.queried.width
    /\ RequestedFormat.height = connectInfo.queried.height
    /\ RequestedFormat.pixelformat = connectInfo.queried.pixelformat
    /\ ~Asked("VIDIOC_S_FMT")

\* the device answered the forced 640x480 with another size
DeviceAdjusted ==
  \/ connectInfo.reply.width # ForcedWidth
  \/ connectInfo.reply.height # ForcedHeight

\* C8: when the session forces its format and the device adjusts the width or
\* height, a successful Connect stores the adjusted width, height and frame byte
\* size, and the buffers it allocates have the adjusted size.
C8_AdjustedFormatStored ==
  (ConnectSucceeded /\ Asked("VIDIOC_S_FMT") /\ DeviceAdjusted) =>
    /\ RequestedFormat.width = connectInfo.reply.width
    /\ RequestedFormat.height = connectInfo.reply.height
    /\ RequestedFormat.sizeimage = connectInfo.reply.sizeimage
    /\ \A k \in 1..Len(Frames) : Frames[k].length = connectInfo.reply.sizeimage

\* a DirectRead session connected to a device that settled on 320x240
C8_Witness ==
  /\ ConnectSucceeded
  /\ Asked("VIDIOC_S_FMT")
  /\ IOMethod = IO_METHOD_READ
  /\ connectInfo.reply.width = 320
  /\ Len(Frames) = 1
  /\ Frames[1].length = 76800

ReadReturned(log, n) == \E k \in 1..Len(log) : log[k] = Req("read_returned", n)

ReadReturnedData(log) ==
  \E k \in 1..Len(log) : log[k].req = "read_returned" /\ log[k].arg >= 0

\* C9: in the READ mode Connect allocates exactly one FrameBuffer whose length is
\* the negotiated frame byte size (614400 for 640x480 at 2 bytes per pixel), and
\* a cycle whose read returns any byte count other than -1, short ones included,
\* succeeds and adds 1 to FrameNumber.
C9_OneBufferAndShortReads ==
  /\ [](( IOMethod = IO_METHOD_READ /\ ConnectSucceeded) =>
          /\ Len(Frames) = 1
          /\ Frames[1].start = "allocated"
          /\ Frames[1].length = RequestedFormat.sizeimage
          /\ ((RequestedFormat.width = 640 /\ RequestedFormat.height = 480
                 /\ BytesPerPixel(RequestedFormat.pixelformat) = 2)
               => Frames[1].length = 614400))
  /\ [][(InternalUpdate /\ IOMethod = IO_METHOD_READ /\ ReadReturnedData(issued')) =>
          (lastStatus' = PLUS_SUCCESS /\ FrameNumber' = FrameNumber + 1)]_vars

\* a read of 1 byte into the 614400-byte buffer was counted as a frame
C9_Witness ==
  /\ IOMethod = IO_METHOD_READ
  /\ lastOp = "Update"
  /\ ReadReturned(issued, 1)
  /\ Frames[1].length = 614400
  /\ FrameNumber = 1

FormatOrBufferRequests ==
  {"VIDIOC_G_FMT", "VIDIOC_S_FMT", "VIDIOC_REQBUFS", "VIDIOC_QUERYBUF",
   "calloc", "malloc", "mmap"}

HasModeCapability(method, caps) ==
  /\ V4L2_CAP_VIDEO_CAPTURE \in caps
  /\ method = IO_METHOD_READ => V4L2_CAP_READWRITE \in caps
  /\ method \in StreamingModes => V4L2_CAP_STREAMING \in caps

\* C10: Connect issues a format request or a buffer allocation only when the
\* device reported the capture capability and the capability of the configured
\* mode; when one of them is missing Connect fails before any such request.
C10_CapabilitiesGateNegotiation ==
  lastOp = "Connect" =>
    /\ (\E n \in FormatOrBufferRequests : Asked(n)) =>
          HasModeCapability(IOMethod, connectInfo.caps)
    /\ ~HasModeCapability(IOMethod, connectInfo.caps) =>
          (lastStatus = PLUS_FAIL /\ \A n \in FormatOrBufferRequests : ~Asked(n))

\* a capture device without the capability of the configured mode was turned away
C10_Witness ==
  /\ lastOp = "Connect"
  /\ lastOutcome = "UnsupportedTransport"
  /\ V4L2_CAP_VIDEO_CAPTURE \in connectInfo.caps
  /\ Asked("VIDIOC_QUERYCAP")
  /\ ~Asked("VIDIOC_G_FMT")

\* buffer i is one of the buffers the StartRecording that has just succeeded
\* queued, and the bound on FrameNumber leaves room for a cycle on each of them
QueuedAtStart(i) ==
  /\ IOMethod \in StreamingModes
  /\ lastOp = "StartRecording"
  /\ lastStatus = PLUS_SUCCESS
  /\ i < BufferCount
  /\ FrameNumber + BufferCount <= MaxLiveFrameNumber

\* a successful cycle has dequeued buffer i and queued it again
CycledBySuccess(i) ==
  /\ lastOp = "Update"
  /\ lastStatus = PLUS_SUCCESS
  /\ \E k \in 1..Len(issued) : issued[k] = Req("VIDIOC_DQBUF", i)
  /\ \E k \in 1..Len(issued) : issued[k] = Req("VIDIOC_QBUF", i)

\* VIDIOC_DQBUF or the requeueing VIDIOC_QBUF failed with an error other than EAGAIN
AcquisitionFailed == lastOp = "Update" /\ lastOutcome = "AcquireFatal"

CloseReturned(log, n) == \E k \in 1..Len(log) : log[k] = Req("close_returned", n)

\* C11: a Disconnect that returns success has set the device handle back to -1,
\* and a Disconnect whose close fails returns failure (CloseFailed); in particular
\* so after a successful Connect.
C11_DisconnectInvalidatesHandle ==
  lastOp = "Disconnect" =>
    /\ lastStatus = PLUS_SUCCESS => FileDescriptor = InvalidFd
    /\ CloseReturned(issued, 0 - 1) =>
          (lastStatus = PLUS_FAIL /\ lastOutcome = "CloseFailed")

\* close failed in the Disconnect that followed a successful Connect
C11_Witness ==
  /\ lastOp = "Disconnect"
  /\ prevConnectOk
  /\ CloseReturned(issued, 0 - 1)
  /\ lastOutcome = "CloseFailed"

\* the last handler was a Connect that failed at or after the buffer-pool allocation
ConnectFailedInBufferInit ==
  /\ lastOp = "Connect"
  /\ lastStatus = PLUS_FAIL
  /\ lastOutcome \in {"BufferInitFailed", "InsufficientBuffers"}

\* C12: a Disconnect that follows a Connect which failed at or after the
\* buffer-pool allocation releases the FrameBuffers that were acquired and the
\* container, closes the handle, and touches no buffer or container that was not
\* acquired (no null or dangling access, no free or unmap of a region never
\* obtained, nothing lost).
C12_DisconnectAfterPartialConnect ==
  [][(ConnectFailedInBufferInit /\ InternalDisconnect) =>
       /\ hazard' = "none"
       /\ leaked' = leaked
       /\ FramesPtr' # "allocated"
       /\ \A k \in 1..Len(Frames') : ~Live(Frames'[k])
       /\ openFds' = {}]_vars

\* the step is a Disconnect of a KernelMapped session that unmaps the region of
\* buffer i
Unmaps(i) ==
  /\ InternalDisconnect
  /\ IOMethod = IO_METHOD_MMAP
  /\ FramesPtr = "allocated"
  /\ i < Len(Frames)
  /\ Frames[i + 1].start = "mapped"
  /\ \E k \in 1..Len(issued') : issued'[k] = Req("munmap", i)

\* C13: in the MMAP mode, whatever the sequence of Connect, StartRecording,
\* update cycles, StopRecording and Disconnect, no FrameBuffer region is unmapped
\* while the kernel still holds that buffer in one of its queues.
C13_NoUnmapWhileQueued ==
  [][\A i \in 0..(MaxGranted - 1) :
       Unmaps(i) => ~InKernel(incoming, outgoing, i)]_vars

StartRecordingDone == lastOp = "StartRecording"

\* positions of the VIDIOC_QBUF requests for buffer i in a log
QbufPositions(log, i) == {k \in 1..Len(log) : log[k] = Req("VIDIOC_QBUF", i)}

\* the VIDIOC_QBUF at position k of the log was answered 0
QbufSucceededAt(log, k) ==
  k < Len(log) /\ log[k + 1] = Req("VIDIOC_QBUF_returned", 0)

\* the VIDIOC_QBUF at position k of the log carried the address and length of
\* FrameBuffer i
CarriesUserPointer(log, k, i) ==
  /\ k > 2
  /\ log[k - 2] = Req("buf.m.userptr", i)
  /\ log[k - 1] = Req("buf.length", Frames[i + 1].length)

\* C14: StartRecording does nothing in the READ mode; in the MMAP and USERPTR
\* modes it queues no buffer twice and only indices below BufferCount (in the
\* USERPTR mode with the buffer's address and length), and VIDIOC_STREAMON is
\* issued only as the last request, after every index 0..BufferCount-1 has been
\* queued exactly once with success.
C14_StartQueuesEveryBufferOnce ==
  /\ [](StartRecordingDone =>
          /\ IOMethod = IO_METHOD_READ => issued = NoRequests
          /\ IOMethod \in StreamingModes =>
                /\ \A k \in 1..Len(issued) :
                      issued[k].req = "VIDIOC_QBUF" =>
                        /\ issued[k].arg \in 0..(BufferCount - 1)
                        /\ Cardinality(QbufPositions(issued, issued[k].arg)) = 1
                        /\ IOMethod = IO_METHOD_USERPTR =>
                              CarriesUserPointer(issued, k, issued[k].arg)
                /\ lastStatus = PLUS_SUCCESS => Asked("VIDIOC_STREAMON")
                /\ \A s \in 1..Len(issued) :
                      issued[s].req = "VIDIOC_STREAMON" =>
                        /\ s = Len(issued) - 1
                        /\ \A i \in 0..(BufferCount - 1) :
                              \E k \in QbufPositions(issued, i) :
                                k < s /\ QbufSucceededAt(issued, k))
  /\ [][(InternalStartRecording /\ IOMethod = IO_METHOD_READ) =>
          UNCHANGED <<sessionVars, kernelVars>>]_vars

\* a USERPTR session has queued its four buffers and started the stream
C14_Witness ==
  /\ StartRecordingDone
  /\ IOMethod = IO_METHOD_USERPTR
  /\ lastStatus = PLUS_SUCCESS
  /\ incoming = <<0, 1, 2, 3>>
  /\ streaming
  /\ Asked("VIDIOC_STREAMON")

\* C15: in the MMAP and USERPTR modes StartRecording returns failure when a
\* VIDIOC_QBUF or VIDIOC_STREAMON fails, and a failed VIDIOC_QBUF is the last
\* request of the call: no VIDIOC_STREAMON and no further VIDIOC_QBUF follows.
C15_StartFailsOnQueueOrStreamOnFailure ==
  (StartRecordingDone /\ IOMethod \in StreamingModes) =>
    /\ \A k \in 1..Len(issued) :
          issued[k] = Req("VIDIOC_QBUF_returned", 0 - 1) =>
            /\ lastStatus = PLUS_FAIL
            /\ k = Len(issued)
            /\ ~Asked("VIDIOC_STREAMON")
    /\ (\E k \in 1..Len(issued) : issued[k] = Req("VIDIOC_STREAMON_returned", 0 - 1))
          => lastStatus = PLUS_FAIL

\* the queue request for the first of several buffers was refused
C15_Witness ==
  /\ StartRecordingDone
  /\ IOMethod \in StreamingModes
  /\ BufferCount > 1
  /\ issued[Len(issued)] = Req("VIDIOC_QBUF_returned", 0 - 1)
  /\ QbufPositions(issued, 0) # {}
  /\ QbufPositions(issued, 1) = {}
  /\ lastStatus = PLUS_FAIL

\* C16: StopRecording returns success in every mode and whatever VIDIOC_STREAMOFF
\* answers; it issues no request in the READ mode and exactly one
\* VIDIOC_STREAMOFF in the MMAP and USERPTR modes.
C16_StopRecordingAlwaysSucceeds ==
  lastOp = "StopRecording" =>
    /\ lastStatus = PLUS_SUCCESS
    /\ IOMethod = IO_METHOD_READ => issued = NoRequests
    /\ IOMethod \in StreamingModes => issued = <<Req("VIDIOC_STREAMOFF", 0)>>

\* VIDIOC_STREAMOFF failed on a running stream and StopRecording reported success
C16_Witness ==
  /\ lastOp = "StopRecording"
  /\ IOMethod \in StreamingModes
  /\ lastOutcome = "StreamOffFailed"
  /\ streaming
  /\ lastStatus = PLUS_SUCCESS

Logged(log, name, n) == \E k \in 1..Len(log) : log[k] = Req(name, n)

\* select timed out, or read / VIDIOC_DQBUF failed with EAGAIN
EndedRecoverably(log) ==
  \/ Logged(log, "select_returned", 0)
  \/ Logged(log, "errno_EAGAIN", 0)

\* select failed, or read, VIDIOC_DQBUF or the requeueing VIDIOC_QBUF failed with an
\* error other than EAGAIN
EndedFatally(log) ==
  \/ Logged(log, "select_returned", 0 - 1)
  \/ Logged(log, "errno_other", 0)
  \/ Logged(log, "errno_EINTR", 0)
  \/ Logged(log, "VIDIOC_QBUF_returned", 0 - 1)

ReleaseRequests == {"munmap", "free", "free_Frames", "close", "VIDIOC_STREAMOFF"}

NoReleaseIn(log) == \A k \in 1..Len(log) : log[k].req \notin ReleaseRequests

\* C17: an update cycle that ends in a poll timeout or in EAGAIN from the
\* acquisition fails and leaves the session as it was: the handle is still the
\* open descriptor, BufferCount and the FrameBuffers are unchanged, nothing is
\* released, the kernel's queues hold the same buffers, FrameNumber is unchanged.
C17_RecoverableCycleChangesNothing ==
  [][(InternalUpdate /\ EndedRecoverably(issued')) =>
       /\ lastStatus' = PLUS_FAIL
       /\ lastOutcome' \in {"PollTimeout", "AcquireRecoverable"}
       /\ UNCHANGED <<FileDescriptor, openFds, BufferCount, FramesPtr, Frames,
                      FrameNumber, incoming, outgoing, streaming, kcount>>
       /\ FileDescriptor' \in openFds'
       /\ NoReleaseIn(issued')]_vars

\* select timed out on a running stream whose buffers are all queued
C17_Witness ==
  /\ lastOp = "Update"
  /\ IOMethod \in StreamingModes
  /\ Logged(issued, "select_returned", 0)
  /\ lastOutcome = "PollTimeout"
  /\ streaming
  /\ Len(incoming) = BufferCount
  /\ FileDescriptor \in openFds

\* C18: an update cycle that ends in a poll error or in a read, dequeue or requeue
\* failure other than EAGAIN returns failure and does not disconnect: the handle
\* is still the open descriptor, no FrameBuffer is freed or unmapped, and no
\* VIDIOC_STREAMOFF is issued.
C18_FatalCycleDoesNotDisconnect ==
  [][(InternalUpdate /\ EndedFatally(issued')) =>
       /\ lastStatus' = PLUS_FAIL
       /\ lastOutcome' \in {"PollError", "AcquireFatal"}
       /\ UNCHANGED <<FileDescriptor, openFds, BufferCount, FramesPtr, Frames,
                      streaming>>
       /\ FileDescriptor' \in openFds'
       /\ Connected'
       /\ NoReleaseIn(issued')]_vars

\* the requeue failed after a dequeue on a running stream, which stays on
C18_Witness ==
  /\ lastOp = "Update"
  /\ Logged(issued, "VIDIOC_QBUF_returned", 0 - 1)
  /\ lastOutcome = "AcquireFatal"
  /\ streaming
  /\ FileDescriptor \in openFds
  /\ FramesPtr = "allocated"

\* C19: every update cycle that returns success hands exactly one frame to the
\* sink, and a cycle that fails hands none.
C19_OneFramePerSuccessfulCycle ==
  [][InternalUpdate =>
       sinkFrames' = sinkFrames + (IF lastStatus' = PLUS_SUCCESS THEN 1 ELSE 0)]_vars

LiveEntries == {k \in 1..Len(Frames) : Live(Frames[k])}

NeverConnected == lastOp \in {"None", "ReadConfiguration"}

\* C20: after a successful Connect BufferCount is the number of live FrameBuffer
\* entries: 1 in the READ mode, the granted count N >= 2 in the MMAP mode, 4 in
\* the USERPTR mode; before the first Connect it is 0.
C20_BufferCountIsLiveEntries ==
  /\ NeverConnected => BufferCount = 0
  /\ ConnectSucceeded =>
       /\ BufferCount = Cardinality(LiveEntries)
       /\ IOMethod = IO_METHOD_READ => BufferCount = 1
       /\ IOMethod = IO_METHOD_MMAP =>
             (BufferCount = connectInfo.granted /\ BufferCount >= MinBuffers)
       /\ IOMethod = IO_METHOD_USERPTR => BufferCount = UserpCount

\* C21: in the MMAP mode, when VIDIOC_REQBUFS succeeds with fewer than 2 buffers
\* the initialisation fails with InsufficientBuffers and allocates no container;
\* with 2 or more it is not turned away for the count, and a Connect that
\* succeeds has BufferCount and the container at exactly the granted count,
\* below or above the 4 requested.
C21_GrantedCountDecides ==
  (lastOp = "Connect" /\ IOMethod = IO_METHOD_MMAP
     /\ Logged(issued, "VIDIOC_REQBUFS_returned", 0)) =>
    /\ connectInfo.granted < MinBuffers =>
          /\ lastStatus = PLUS_FAIL
          /\ lastOutcome = "InsufficientBuffers"
          /\ ~Asked("calloc")
          /\ ~Asked("mmap")
    /\ connectInfo.granted >= MinBuffers =>
          /\ lastOutcome # "InsufficientBuffers"
          /\ lastStatus = PLUS_SUCCESS =>
                (BufferCount = connectInfo.granted /\ Len(Frames) = connectInfo.granted)

\* the device granted one buffer more than the four requested
C21_Witness ==
  /\ ConnectSucceeded
  /\ IOMethod = IO_METHOD_MMAP
  /\ connectInfo.granted = ReqCount + 1
  /\ BufferCount = ReqCount + 1
  /\ Len(Frames) = ReqCount + 1

\* C22: in the USERPTR mode a successful Connect has allocated exactly 4 heap
\* FrameBuffers, each of the negotiated frame byte size, whatever count the
\* device wrote back to VIDIOC_REQBUFS.
C22_UserpAllocatesFour ==
  (ConnectSucceeded /\ IOMethod = IO_METHOD_USERPTR) =>
    /\ BufferCount = UserpCount
    /\ Len(Frames) = UserpCount
    /\ UserpCount = 4
    /\ \A k \in 1..Len(Frames) :
          /\ Frames[k].start = "allocated"
          /\ Frames[k].length = RequestedFormat.sizeimage
          /\ Frames[k].length = connectInfo.reply.sizeimage

\* four buffers in front of a device that reported a single one
C22_Witness ==
  /\ ConnectSucceeded
  /\ IOMethod = IO_METHOD_USERPTR
  /\ connectInfo.granted = 1
  /\ Len(Frames) = 4
  /\ Frames[4].length = 614400

\* C23: StartRecording, every update cycle whatever its outcome, and
\* StopRecording leave BufferCount and the FrameBuffers (the container, the
\* regions and their lengths) as Connect left them.
C23_BufferPoolFixedWhileConnected ==
  [][(InternalStartRecording \/ InternalUpdate \/ InternalStopRecording) =>
       UNCHANGED <<BufferCount, FramesPtr, Frames>>]_vars

\* a stream was started, has delivered frames and was stopped, on the four mapped
\* buffers of its Connect
C23_Witness ==
  /\ lastOp = "StopRecording"
  /\ IOMethod = IO_METHOD_MMAP
  /\ FrameNumber > 0
  /\ BufferCount = 4
  /\ Len(Frames) = 4
  /\ \A k \in 1..Len(Frames) : Frames[k].start = "mapped"

\* a VIDIOC_QUERYBUF of the last Connect failed: it is the last request issued
QuerybufFailed ==
  Len(issued) > 0 /\ issued[Len(issued)].req = "VIDIOC_QUERYBUF"

\* C24: a Connect that reaches the cropping block goes on to VIDIOC_G_FMT
\* whatever VIDIOC_CROPCAP and VIDIOC_S_CROP answered, and a KernelMapped Connect
\* in which mmap failed for a buffer, and no later VIDIOC_QUERYBUF did, succeeds
\* and counts every granted buffer in BufferCount, the unmapped one included.
C24_BestEffortStepsDoNotAbort ==
  /\ (lastOp = "Connect" /\ Asked("VIDIOC_CROPCAP")) => Asked("VIDIOC_G_FMT")
  /\ (lastOp = "Connect" /\ Logged(issued, "mmap_returned", 0 - 1) /\ ~QuerybufFailed) =>
       /\ lastStatus = PLUS_SUCCESS
       /\ BufferCount = connectInfo.granted
       /\ Len(Frames) = BufferCount
       /\ \E k \in 1..BufferCount : Frames[k].start = "MAP_FAILED"

\* a KernelMapped Connect succeeded with four buffers although VIDIOC_S_CROP
\* and the mapping of the first buffer failed
C24_Witness ==
  /\ ConnectSucceeded
  /\ IOMethod = IO_METHOD_MMAP
  /\ Logged(issued, "VIDIOC_S_CROP_returned", 0 - 1)
  /\ Logged(issued, "mmap_returned", 0 - 1)
  /\ BufferCount = 4
  /\ Frames[1].start = "MAP_FAILED"

\* a Connect went on to negotiate the format after VIDIOC_CROPCAP failed
C24_WitnessCropcap ==
  /\ ConnectSucceeded
  /\ Logged(issued, "VIDIOC_CROPCAP_returned", 0 - 1)
  /\ Asked("VIDIOC_S_FMT")

\* C25: no step of the session decreases FrameNumber, and StopRecording and
\* StartRecording leave it as it is, so a stream that is paused and resumed goes
\* on counting from where it stopped.
C25_FrameNumberNeverDecreases ==
  /\ [][FrameNumber' >= FrameNumber]_vars
  /\ [][(InternalStopRecording \/ InternalStartRecording) =>
          FrameNumber' = FrameNumber]_vars

\* a stream that has delivered frames was started again
C25_Witness ==
  /\ lastOp = "StartRecording"
  /\ lastStatus = PLUS_SUCCESS
  /\ IOMethod \in StreamingModes
  /\ streaming
  /\ FrameNumber > 0

\* the handlers other than ReadConfiguration
SessionHandler ==
  \/ InternalConnect
  \/ InternalStartRecording
  \/ InternalUpdate
  \/ InternalStopRecording
  \/ InternalDisconnect

\* the release request at position k of log fits the mode and the kind of
\* region it is applied to: munmap for a KernelMapped buffer, free for a heap one
ReleaseFits(log, k) ==
  /\ log[k].req = "munmap" =>
       /\ IOMethod = IO_METHOD_MMAP
       /\ Frames[log[k].arg + 1].start \in {"mapped", "MAP_FAILED"}
  /\ log[k].req = "free" =>
       /\ IOMethod \in {IO_METHOD_READ, IO_METHOD_USERPTR}
       /\ Frames[log[k].arg + 1].start \in {"allocated", "NULL"}

\* C26: Connect, StartRecording, update cycles, StopRecording and Disconnect
\* leave the transport mode alone, and the Disconnect of a connected session
\* releases each buffer the way its mode allocated it: it never hands a mapped
\* region to free nor a heap region to munmap.
C26_ModeFixedOutsideConfiguration ==
  /\ [][SessionHandler => IOMethod' = IOMethod]_vars
  /\ [][(InternalDisconnect /\ Connected) =>
          /\ hazard' # "invalid_free"
          /\ \A k \in 1..Len(issued') : ReleaseFits(issued', k)]_vars

\* a KernelMapped session was connected and disconnected, its four buffers unmapped
C26_Witness ==
  /\ lastOp = "Disconnect"
  /\ prevConnectOk
  /\ lastStatus = PLUS_SUCCESS
  /\ IOMethod = IO_METHOD_MMAP
  /\ Logged(issued, "munmap", 3)

\* the three mode names
ModeNames == {"IO_METHOD_READ", "IO_METHOD_MMAP", "IO_METHOD_USERPTR"}

\* the IOMethod string of the device record that the last ReadConfiguration
\* was given
DeviceModeString(log) == log[4].req

\* C27: when the transport-mode string of the device record is none of the
\* three mode names, compared without regard to case, ReadConfiguration leaves
\* the mode as it was, warns and returns success; when it is one of them the
\* mode becomes the named one.
C27_UnknownModeFallsBack ==
  [][ReadConfiguration =>
       /\ lastStatus' = PLUS_SUCCESS
       /\ IF ToUpper(DeviceModeString(issued')) \in ModeNames
          THEN IOMethodToString(IOMethod') = ToUpper(DeviceModeString(issued'))
          ELSE IOMethod' = IOMethod /\ lastOutcome' = "UnknownMethodWarning"]_vars

\* C28: an update cycle issues its read or dequeue on a closed device handle, or
\* reads a released FrameBuffer, only if another thread ran Disconnect inside
\* it; in a run whose calls are serialized no cycle does.  (That some
\* interleaving of Update and Disconnect does reach such a cycle is the
\* reachability of C28_Witness.)
C28_UnsafeOnlyWhenInterleaved ==
  (raceObs.closedHandle \/ raceObs.releasedBuffer) => raceObs.overlapped

\* a DirectRead cycle whose select had returned went on, after a Disconnect by
\* another thread, to read on the closed descriptor into the freed buffer
C28_Witness ==
  /\ lastOp = "Update"
  /\ raceObs.overlapped
  /\ raceObs.closedHandle
  /\ raceObs.releasedBuffer
  /\ hazard = "use_after_free"

\* a KernelMapped cycle dequeued on the descriptor another thread had closed
C28_WitnessClosedHandle ==
  /\ lastOp = "Update"
  /\ IOMethod = IO_METHOD_MMAP
  /\ raceObs.overlapped
  /\ raceObs.closedHandle
  /\ Logged(issued, "VIDIOC_DQBUF_returned", 0 - 1)

\* a cycle that no Disconnect ran into acquired a frame
C28_WitnessSerialized ==
  /\ lastOp = "Update"
  /\ ~raceObs.overlapped
  /\ lastStatus = PLUS_SUCCESS
  /\ FrameNumber = MaxFrameNumber

\* the requests by which a cycle acquires a frame
AcquisitionRequests == {"read", "VIDIOC_DQBUF", "VIDIOC_QBUF"}

\* C29: an update cycle whose select returned an error or timed out returns
\* failure without having issued read, VIDIOC_DQBUF or VIDIOC_QBUF, and leaves
\* the kernel's queues as they were; a cycle issues one of these requests only
\* after select returned a positive count.
C29_AcquisitionOnlyWhenReadable ==
  [][InternalUpdate =>
       /\ (Logged(issued', "select_returned", 0) \/ Logged(issued', "select_returned", 0 - 1)) =>
            /\ lastStatus' = PLUS_FAIL
            /\ lastOutcome' \in {"PollTimeout", "PollError"}
            /\ \A k \in 1..Len(issued') : issued'[k].req \notin AcquisitionRequests
            /\ UNCHANGED <<incoming, outgoing, FrameNumber>>
       /\ (\E k \in 1..Len(issued') : issued'[k].req \in AcquisitionRequests) =>
            /\ issued'[1] = Req("select", 0)
            /\ issued'[2] = Req("select_returned", 1)]_vars

\* a cycle on a running KernelMapped stream ended at a select that failed, with a
\* filled buffer waiting
C29_Witness ==
  /\ lastOp = "Update"
  /\ lastOutcome = "PollError"
  /\ IOMethod = IO_METHOD_MMAP
  /\ streaming
  /\ outgoing # << >>
  /\ issued = <<Req("select", 0), Req("select_returned", 0 - 1)>>

\* a cycle timed out
C29_WitnessTimeout ==
  /\ lastOp = "Update"
  /\ lastOutcome = "PollTimeout"
  /\ issued = <<Req("select", 0), Req("select_returned", 0)>>

\* buffers the kernel holds, empty or filled
KernelHeld(inc, out) == Len(inc) + Len(out)

\* an update cycle on a running stream all of whose buffers are with the kernel
CycleOnFullQueue ==
  /\ InternalUpdate
  /\ IOMethod \in StreamingModes
  /\ streaming
  /\ BufferCount > 0
  /\ KernelHeld(incoming, outgoing) = BufferCount

\* the cycle handed back every buffer it was handed and released none
RequeuedWhatItDequeued ==
  /\ \A k \in 1..Len(issued') :
       (issued'[k].req = "VIDIOC_DQBUF" /\ issued'[k].arg >= 0) =>
         Logged(issued', "VIDIOC_QBUF", issued'[k].arg)
  /\ UNCHANGED <<FramesPtr, Frames, BufferCount>>

Positions(log, name) == {k \in 1..Len(log) : log[k].req = name}

\* the requests that release a region
RegionReleases == {"free", "munmap"}

\* C31: a Disconnect that closes the device handle has before that released
\* every region that was allocated or mapped, and after the regions and before
\* the close it has freed the container: every free or munmap of a region comes
\* before free(Frames), which comes before close.
C31_ReleaseBeforeClose ==
  [][(InternalDisconnect /\ Positions(issued', "close") # {}) =>
       /\ \A c \in Positions(issued', "close") :
            \E f \in Positions(issued', "free_Frames") :
              /\ f < c
              /\ \A k \in 1..Len(issued') :
                   issued'[k].req \in RegionReleases => k < f
       /\ \A i \in 1..Len(Frames) :
            Live(Frames[i]) =>
              \E k \in 1..Len(issued') :
                issued'[k].req \in RegionReleases /\ issued'[k].arg = i - 1]_vars

\* a UserPointer session released its four buffers, then the container, then
\* closed the device
C31_Witness ==
  /\ lastOp = "Disconnect"
  /\ lastStatus = PLUS_SUCCESS
  /\ IOMethod = IO_METHOD_USERPTR
  /\ issued = <<Req("free", 0), Req("free", 1), Req("free", 2), Req("free", 3),
                Req("free_Frames", 0), Req("close", 0), Req("close_returned", 0)>>

\* the argument of the first entry named name in log
ArgOf(log, name) == log[CHOOSE k \in 1..Len(log) : log[k].req = name].arg

\* C32: a UserPointer cycle whose VIDIOC_DQBUF succeeded hands VIDIOC_QBUF the
\* address and the length it was handed, whether or not a FrameBuffer of the pool
\* has them; it leaves the pool as it is, and it fails only if VIDIOC_QBUF fails.
C32_RequeuesWhatWasDequeued ==
  [][(InternalUpdate /\ IOMethod = IO_METHOD_USERPTR
        /\ Positions(issued', "dequeued.m.userptr") # {}) =>
       /\ Positions(issued', "VIDIOC_QBUF") # {}
       /\ ArgOf(issued', "VIDIOC_QBUF") = ArgOf(issued', "dequeued.m.userptr")
       /\ ArgOf(issued', "requeued.m.userptr") = ArgOf(issued', "dequeued.m.userptr")
       /\ ArgOf(issued', "requeued.length") = ArgOf(issued', "dequeued.length")
       /\ UNCHANGED <<FramesPtr, Frames, BufferCount>>
       /\ Logged(issued', "VIDIOC_QBUF_returned", 0) => lastStatus' = PLUS_SUCCESS]_vars

\* a UserPointer cycle succeeded on a descriptor that matches no FrameBuffer
C32_Witness ==
  /\ lastOp = "Update"
  /\ lastStatus = PLUS_SUCCESS
  /\ IOMethod = IO_METHOD_USERPTR
  /\ BufferCount = 4
  /\ Logged(issued, "matched", BufferCount)
  /\ Logged(issued, "dequeued.length", 0)
  /\ Logged(issued, "requeued.length", 0)

\* a UserPointer cycle succeeded on a descriptor the loop found in the pool
C32_WitnessMatched ==
  /\ lastOp = "Update"
  /\ lastStatus = PLUS_SUCCESS
  /\ IOMethod = IO_METHOD_USERPTR
  /\ Positions(issued, "matched") # {}
  /\ ArgOf(issued, "matched") < BufferCount

\* C33: over any sequence of Connect and Disconnect calls no region and no
\* container is freed or unmapped a second time, and no Disconnect works on
\* buffers that an earlier Disconnect released.
C33_NothingReleasedTwice ==
  lastOp = "Disconnect" => hazard \notin {"double_free", "use_after_free"}

\* C34: a Disconnect of a connected session that returns failure has released no
\* FrameBuffer and no container, and the device handle it leaves is open.
C34_FailedDisconnectReleasesNothing ==
  [][(InternalDisconnect /\ Connected /\ lastStatus' = PLUS_FAIL) =>
       /\ UNCHANGED <<FramesPtr, Frames>>
       /\ FileDescriptor' \in openFds']_vars

\* C35: in the MMAP and USERPTR modes StartRecording issues VIDIOC_QBUF for no
\* buffer that the kernel still holds queued, and no update cycle does.
C35_NoQueueOfQueuedBuffer ==
  /\ [][(InternalStartRecording /\ IOMethod \in StreamingModes) =>
          \A k \in 1..Len(issued') :
            issued'[k].req = "VIDIOC_QBUF" =>
              ~InKernel(incoming, outgoing, issued'[k].arg)]_vars
  /\ [](IOMethod \in StreamingModes => ~requeuedQueued)

\* the cycle's VIDIOC_DQBUF handed out a buffer and its VIDIOC_QBUF was refused
RequeueRefused(log) ==
  /\ \E k \in 1..Len(log) : log[k].req = "VIDIOC_DQBUF" /\ log[k].arg >= 0
  /\ Logged(log, "VIDIOC_QBUF_returned", 0 - 1)

\* C36: in the MMAP and USERPTR modes a cycle whose dequeue succeeded and whose
\* requeue failed returns failure and leaves FrameNumber as it was.
C36_FailedRequeueFailsCycle ==
  [][(InternalUpdate /\ IOMethod \in StreamingModes /\ RequeueRefused(issued')) =>
       /\ lastStatus' = PLUS_FAIL
       /\ FrameNumber' = FrameNumber]_vars

\* after one frame, a cycle dequeued a buffer, failed to requeue it and left
\* FrameNumber at 1
C36_Witness ==
  /\ lastOp = "Update"
  /\ IOMethod \in StreamingModes
  /\ RequeueRefused(issued)
  /\ lastStatus = PLUS_FAIL
  /\ FrameNumber = 1

\* C37: a fresh session that reads the record WriteConfiguration wrote for a
\* session with a device path ends with the same device path and the same
\* transport mode as the session that wrote it.
C37_ConfigurationRoundTrip ==
  (readBack.done /\ written.DeviceName # "") =>
    /\ readBack.status = PLUS_SUCCESS
    /\ readBack.DeviceName = written.DeviceName
    /\ readBack.IOMethod = written.IOMethod

\* the conversions give, for every mode, the mode back from its name
ModeRoundTrip ==
  converted.from \in IOMethods => converted.back = converted.from

\* C38 as stated: StringToIOMethod(IOMethodToString(m)) = m for the three
\* modes, each of the three names maps to the mode it names (so the three map
\* to three distinct modes), and every other string maps to the unknown mode.
C38_NamesAndOnlyNames ==
  converted.done =>
    /\ ModeRoundTrip
    /\ converted.input \in ModeNames => IOMethodToString(converted.mode) = converted.input
    /\ converted.input \notin ModeNames => converted.mode = IO_METHOD_UNKNOWN

\* C38, amended: StringToIOMethod(IOMethodToString(m)) = m for the three modes,
\* a string that is one of the three names up to the case of its letters maps to
\* the mode it names (so the three names map to three distinct modes), and every
\* other string maps to the unknown mode.
C38_NamesUpToCase ==
  converted.done =>
    /\ ModeRoundTrip
    /\ ToUpper(converted.input) \in ModeNames =>
         IOMethodToString(converted.mode) = ToUpper(converted.input)
    /\ ToUpper(converted.input) \notin ModeNames => converted.mode = IO_METHOD_UNKNOWN

\* a name in mixed case was converted to its mode, and a mode to its name and back
C38_Witness ==
  /\ converted.done
  /\ converted.input = "Io_Method_Mmap"
  /\ converted.mode = IO_METHOD_MMAP
  /\ converted.from = IO_METHOD_USERPTR
  /\ converted.name = "IO_METHOD_USERPTR"
  /\ converted.back = IO_METHOD_USERPTR

\* a string that names no mode was converted to the unknown mode
C38_WitnessUnknown ==
  /\ converted.done
  /\ converted.input = "IO_METHOD_DMA"
  /\ converted.mode = IO_METHOD_UNKNOWN

\* C39: NotifyConfigured returns failure and clears CorrectlyConfigured when the
\* device has no output channel, and only then; with a channel it returns
\* success and leaves CorrectlyConfigured as it was.
C39_NotifyConfiguredNeedsChannel ==
  [][NotifyConfigured =>
       IF OutputChannels = 0
       THEN lastStatus' = PLUS_FAIL /\ CorrectlyConfigured' = FALSE
       ELSE lastStatus' = PLUS_SUCCESS /\ CorrectlyConfigured' = CorrectlyConfigured]_vars

\* NotifyConfigured succeeded with one channel and left the flag a failed call
\* had cleared
C39_Witness ==
  /\ lastOp = "NotifyConfigured"
  /\ lastStatus = PLUS_SUCCESS
  /\ OutputChannels = 1
  /\ CorrectlyConfigured = FALSE

\* NotifyConfigured failed for want of a channel
C39_WitnessFailure ==
  /\ lastOp = "NotifyConfigured"
  /\ lastStatus = PLUS_FAIL
  /\ OutputChannels = 0
  /\ CorrectlyConfigured = FALSE

\* xioctl called ioctl once more than it was interrupted and returned an answer
\* that is not an interruption
XioctlRetriesInterrupts ==
  ioctlObs.done =>
    /\ ioctlObs.calls = ioctlObs.interrupts + 1
    /\ ~(ioctlObs.result = 0 - 1 /\ ioctlObs.errno = "EINTR")

\* C40: xioctl issues its request again for as long as it is interrupted and
\* returns the first answer that is not an interruption, and no handler of the
\* session returns failure because a signal interrupted one of its requests to
\* the kernel.
C40_InterruptsAreNeverErrors ==
  /\ XioctlRetriesInterrupts
  /\ lastStatus = PLUS_FAIL => ~Logged(issued, "errno_EINTR", 0)

====
